---- MODULE Spec2Model ----
(***************************************************************************)
(* Model of the hawtcher monitor: the history-file watcher                 *)
(* (monitor/watcher.py), the task analyzer (monitor/analyzer.py) and the   *)
(* classifier client (monitor/llm_client.py).                              *)
(*                                                                         *)
(* The history file is a sequence of tokens.  A record is written as a     *)
(* head token, a tail token and a newline token, so that a writer can      *)
(* flush a record in parts; a file offset counts tokens.                   *)
(***************************************************************************)
EXTENDS Integers, Sequences, FiniteSets, TLC

VARIABLES
    \* ---- history file and its writer (environment of HistoryWatcher)
    file_exists,      \* history_path.exists()
    file,             \* the content of the history file, a sequence of tokens
    pending,          \* tokens of the record being written, not yet flushed
    next_id,          \* identity of the next record the writer appends
    \* ---- HistoryWatcher
    last_position,    \* HistoryWatcher.last_position
    emitted,          \* ids of the records passed to on_new_event, in order
    last_read,        \* what the latest call of _read_new_entries did
    \* ---- TaskAnalyzer
    on_intervention,  \* whether an on_intervention callback was given
    user_instruction, \* TaskAnalyzer.user_instruction (None, or a text)
    recent_events,    \* TaskAnalyzer.recent_events, a deque(maxlen=context_window_size)
    event_count,      \* TaskAnalyzer.event_count
    all_clean,        \* no event processed so far held a suspicious phrase
    last_event,       \* what the latest call of process_event did
    current_todos,    \* TaskAnalyzer.current_todos
    completed_todos,  \* TaskAnalyzer.completed_todos
    \* ---- Interventor and the side-channel file
    fs,               \* the files at the delivery path and at its temporary path
    write_pc,         \* position of the thread inside _write_intervention_file
    write_job,        \* the delivery being written
    intervention_count, \* Interventor.intervention_count
    log_path,         \* whether an audit log path was given
    audit_log,        \* the entries of the audit log
    observed,         \* what the reader of the delivery path saw last
    committed,        \* the messages whose replace onto the delivery path completed
    last_delivery,    \* what the latest finished call of _write_intervention_file did
    \* ---- TelegramRelay and HawtcherApp._handle_question
    relay_configured, \* HawtcherApp.telegram_relay is not None
    chat_id,          \* TelegramRelay.chat_id
    answer_queue,     \* TelegramRelay.answer_queue
    waiting_for_answer,  \* TelegramRelay.waiting_for_answer
    current_question_id, \* TelegramRelay.current_question_id
    ask_pc,           \* position of the asking thread inside ask_question
    question,         \* the question the asking thread is handling
    handler,          \* the listener's handler in progress and the reply it holds
    sent,             \* ids of the questions whose send was scheduled
    unreachable,      \* ids of the questions whose send failed
    replies,          \* number of replies the listener received
    questions,        \* number of questions handled
    last_question,    \* what the latest finished call of _handle_question did
    telegram_chat_id, \* Settings.telegram_chat_id, the recipient given at start (or none)
    loop,             \* TelegramRelay.loop is set: the listener thread runs its event loop
    detected,         \* the chat ids given to on_chat_id_detected, in order
    \* ---- QuestionDetector and the construction of the TaskAnalyzer
    construction,     \* how the call TaskAnalyzer(...) ended
    last_detect,      \* what the latest call of is_question did
    last_ingest,      \* what the latest call of process_event did about a question
    last_extract,     \* what the latest call of extract_question did
    \* ---- QuestionAnswerer
    confidence_threshold, \* QuestionAnswerer.confidence_threshold, in hundredths
    last_attempt,     \* what the latest call of try_answer did
    \* ---- the TaskContext a classifier keeps after it was handed it
    context,          \* the TaskContext object built at the latest trigger
    context_taken,    \* what the analyzer held when that context was built
    \* ---- HawtcherApp.start and stop
    app_pc,           \* position of the main thread inside HawtcherApp.start
    monitor_running,  \* HistoryMonitor._running
    started,          \* what the call of HawtcherApp.start did
    stopped           \* what the operator's interrupt led to

watcher_vars == <<file_exists, file, pending, next_id, last_position, emitted, last_read>>

analyzer_vars == <<on_intervention, user_instruction, recent_events, event_count,
                   all_clean, last_event, current_todos, completed_todos>>

delivery_vars == <<fs, write_pc, write_job, intervention_count, log_path, audit_log,
                   observed, committed, last_delivery>>

contact_vars == <<telegram_chat_id, loop, detected>>

relay_vars == <<relay_configured, chat_id, answer_queue, waiting_for_answer,
                current_question_id, ask_pc, question, handler, sent, unreachable, replies,
                questions, last_question, contact_vars>>

detector_vars == <<construction, last_detect, last_ingest, last_extract>>

answerer_vars == <<confidence_threshold, last_attempt>>

context_vars == <<context, context_taken>>

app_vars == <<app_pc, monitor_running, started, stopped>>

not_watcher_vars == <<analyzer_vars, delivery_vars, relay_vars, detector_vars, answerer_vars,
                      context_vars, app_vars>>

\* What process_event leaves alone, whoever keeps the context it built.
not_analyzer_context_vars == <<watcher_vars, delivery_vars, relay_vars, detector_vars,
                               answerer_vars, app_vars>>

not_analyzer_vars == <<not_analyzer_context_vars, context_vars>>

not_delivery_vars == <<watcher_vars, analyzer_vars, relay_vars, detector_vars, answerer_vars,
                       context_vars, app_vars>>

not_detector_vars == <<watcher_vars, analyzer_vars, delivery_vars, relay_vars, answerer_vars,
                       context_vars, app_vars>>

not_answerer_vars == <<watcher_vars, analyzer_vars, delivery_vars, relay_vars, detector_vars,
                       context_vars, app_vars>>

\* What HawtcherApp.start and stop leave alone, the relay apart.
not_app_vars == <<watcher_vars, analyzer_vars, delivery_vars, detector_vars, answerer_vars,
                  context_vars>>

\* What the question flow leaves alone: it writes the side-channel file only.
not_relay_vars == <<watcher_vars, analyzer_vars, write_pc, write_job, intervention_count,
                    log_path, audit_log, observed, committed, last_delivery, detector_vars,
                    answerer_vars, context_vars, app_vars>>

not_question_vars == <<not_relay_vars, contact_vars>>

vars == <<file_exists, file, pending, next_id, last_position, emitted, last_read,
          on_intervention, user_instruction, recent_events, event_count,
          all_clean, last_event, current_todos, completed_todos,
          fs, write_pc, write_job, intervention_count, log_path, audit_log,
          observed, committed, last_delivery,
          relay_configured, chat_id, answer_queue, waiting_for_answer,
          current_question_id, ask_pc, question, handler, sent, unreachable, replies,
          questions, last_question, telegram_chat_id, loop, detected,
          construction, last_detect, last_ingest, last_extract,
          confidence_threshold, last_attempt,
          context, context_taken, app_pc, monitor_running, started, stopped>>

\* Number of records the writer appends after the watcher is attached.
MaxRecords == 2

(***************************************************************************)
(* The history file                                                        *)
(***************************************************************************)

\* Kinds of line a writer can put in the log:
\*   good       a JSON object with every required field, well typed
\*   badjson    text that is not JSON
\*   nonobject  valid JSON that is not an object ([1, 2], 5, "s", null)
\*   missing    a JSON object without a required field
\*   badtype    a JSON object with a wrongly typed field
\*   blank      an empty line
\*   badenc     a line holding bytes that are not UTF-8
LineKinds == {"good", "badjson", "nonobject", "missing", "badtype", "blank", "badenc"}

NL == [id |-> 0, kind |-> "nl", part |-> "nl"]

Tok(id, kind, part) == [id |-> id, kind |-> kind, part |-> part]

\* The tokens of one record, newline included.
RecordTokens(id, kind) ==
    IF kind = "blank" THEN <<NL>>
    ELSE <<Tok(id, kind, "head"), Tok(id, kind, "tail"), NL>>

\* Contents the file can have when the watcher is attached: the record with
\* id 0 is history; it may be complete, lack its newline, or be half written.
InitialContents ==
    { SubSeq(RecordTokens(0, "good"), 1, n) : n \in 0..3 }

(***************************************************************************)
(* HistoryWatcher                                                          *)
(***************************************************************************)

\* _initialize_position without the seek to the end of the file
InitializePositionAtStart(exists, content) == 0

\* _initialize_position: the end of the file if it exists, else 0.
InitializePosition(exists, content) ==
    IF exists THEN Len(content) ELSE 0

\* open(..., encoding="utf-8"), seek, readlines: decoding the bytes from the
\* offset to the end of the file raises UnicodeDecodeError on a bad byte.
Decodable(bytes) == \A i \in DOMAIN bytes : bytes[i].kind # "badenc"

\* f.readlines(): the lines from the offset on, each with its newline, the
\* last one possibly without.
RECURSIVE ReadLines(_, _)
ReadLines(bytes, cur) ==
    IF bytes = <<>> THEN (IF cur = <<>> THEN <<>> ELSE <<cur>>)
    ELSE IF Head(bytes) = NL
         THEN <<Append(cur, NL)>> \o ReadLines(Tail(bytes), <<>>)
         ELSE ReadLines(Tail(bytes), Append(cur, Head(bytes)))

\* line.strip()
Strip(line) == SelectSeq(line, LAMBDA t : t # NL)

\* json.loads(line): a value only if the line is exactly one whole record
\* whose text is JSON; a part of a record, or parts of two, is not JSON.
JsonLoads(line) ==
    IF /\ Len(line) = 2
       /\ line[1].part = "head" /\ line[2].part = "tail"
       /\ line[1].id = line[2].id
       /\ line[1].kind \in {"good", "nonobject", "missing", "badtype"}
    THEN [ok |-> TRUE, kind |-> line[1].kind, id |-> line[1].id]
    ELSE [ok |-> FALSE, kind |-> "JSONDecodeError", id |-> 0]

\* The body of the loop of _read_new_entries for one line: what happens to it.
\*   skip             the stripped line is empty
\*   event            on_new_event(event) is called
\*   JSONDecodeError  caught, the line is dropped
\*   ValidationError  pydantic's error, a ValueError: caught, the line is dropped
\*   TypeError        ClaudeHistoryEvent(**data) with data not a mapping: not caught
ParseLine(line) ==
    LET s == Strip(line)
        j == JsonLoads(s)
    IN  IF s = <<>> THEN [outcome |-> "skip", id |-> 0]
        ELSE IF ~j.ok THEN [outcome |-> "JSONDecodeError", id |-> 0]
        ELSE IF j.kind = "nonobject" THEN [outcome |-> "TypeError", id |-> 0]
        ELSE IF j.kind \in {"missing", "badtype"} THEN [outcome |-> "ValidationError", id |-> 0]
        ELSE [outcome |-> "event", id |-> j.id]

\* An exception the except clause of the loop does not catch leaves the loop.
Uncaught(outcome) == outcome = "TypeError"

\* for line in new_lines: ... ; the ids passed to on_new_event and the
\* exception that ended the loop, if any.
RECURSIVE ProcessLines(_)
ProcessLines(lines) ==
    IF lines = <<>> THEN [passed |-> <<>>, raised |-> "none"]
    ELSE LET p == ParseLine(Head(lines))
         IN  IF Uncaught(p.outcome)
             THEN [passed |-> <<>>, raised |-> p.outcome]
             ELSE LET rest == ProcessLines(Tail(lines))
                  IN  [passed |-> (IF p.outcome = "event" THEN <<p.id>> ELSE <<>>) \o rest.passed,
                       raised |-> rest.raised]

NoRead == [outcome |-> "none", before |-> 0, eof |-> 0, lines |-> <<>>, passed |-> <<>>]

\* _read_new_entries
ReadNewEntries ==
    IF ~file_exists
    THEN /\ last_read' = [NoRead EXCEPT !.outcome = "nofile", !.before = last_position]
         /\ UNCHANGED <<file_exists, file, pending, next_id, last_position, emitted>>
         /\ UNCHANGED not_watcher_vars
    ELSE LET bytes == SubSeq(file, last_position + 1, Len(file))
         IN  IF ~Decodable(bytes)
             THEN \* readlines raises; the assignment to last_position is not reached
                  /\ last_read' = [outcome |-> "UnicodeDecodeError", before |-> last_position,
                                   eof |-> Len(file), lines |-> <<>>, passed |-> <<>>]
                  /\ UNCHANGED <<file_exists, file, pending, next_id, last_position, emitted>>
                  /\ UNCHANGED not_watcher_vars
             ELSE LET new_lines == ReadLines(bytes, <<>>)
                      r == ProcessLines(new_lines)
                  IN  /\ last_position' = Len(file)
                      /\ emitted' = emitted \o r.passed
                      /\ last_read' = [outcome |-> IF r.raised = "none" THEN "ok" ELSE r.raised,
                                       before |-> last_position,
                                       eof |-> Len(file),
                                       lines |-> [i \in DOMAIN new_lines |-> ParseLine(new_lines[i])],
                                       passed |-> r.passed]
                      /\ UNCHANGED <<file_exists, file, pending, next_id>>
                      /\ UNCHANGED not_watcher_vars

\* force_check, the step of the polling loop
ForceCheck == ReadNewEntries

\* on_modified, called by the observer for a change in the watched directory
OnModified(src_path) ==
    IF src_path # "history_path"
    THEN UNCHANGED vars
    ELSE ReadNewEntries

(***************************************************************************)
(* The writer of the log: appends records, flushing each in one or more    *)
(* parts.                                                                  *)
(***************************************************************************)

WriterAppend(kind, n) ==
    /\ pending = <<>>
    /\ next_id <= MaxRecords
    /\ LET toks == RecordTokens(next_id, kind)
       IN  /\ n \in 1..Len(toks)
           /\ file' = file \o SubSeq(toks, 1, n)
           /\ pending' = SubSeq(toks, n + 1, Len(toks))
    /\ file_exists' = TRUE
    /\ next_id' = next_id + 1
    /\ UNCHANGED <<last_position, emitted, last_read>>
    /\ UNCHANGED not_watcher_vars

WriterFlush(n) ==
    /\ pending # <<>>
    /\ n \in 1..Len(pending)
    /\ file' = file \o SubSeq(pending, 1, n)
    /\ pending' = SubSeq(pending, n + 1, Len(pending))
    /\ UNCHANGED <<file_exists, next_id, last_position, emitted, last_read>>
    /\ UNCHANGED not_watcher_vars

(***************************************************************************)
(* Texts.  A text is a sequence of characters.                             *)
(***************************************************************************)

UpperCase == <<"A", "B", "C", "D", "E", "F", "G", "H", "I", "J", "K", "L", "M",
               "N", "O", "P", "Q", "R", "S", "T", "U", "V", "W", "X", "Y", "Z">>
LowerCase == <<"a", "b", "c", "d", "e", "f", "g", "h", "i", "j", "k", "l", "m",
               "n", "o", "p", "q", "r", "s", "t", "u", "v", "w", "x", "y", "z">>

\* The lower-case form of each upper-case letter
LowerOf ==
    [c \in {UpperCase[k] : k \in DOMAIN UpperCase} |->
        LowerCase[CHOOSE k \in DOMAIN UpperCase : UpperCase[k] = c]]

\* str.lower()
Lower(text) ==
    [i \in DOMAIN text |->
        IF text[i] \in DOMAIN LowerOf THEN LowerOf[text[i]] ELSE text[i]]

\* pattern in text
Contains(text, pattern) ==
    \E i \in 1..(Len(text) - Len(pattern) + 1) :
        SubSeq(text, i, i + Len(pattern) - 1) = pattern

\* Python's None, where a text is expected
None == <<"None">>

\* not x, for x a text or None
Falsy(x) == x = None \/ x = <<>>

TextFixBug == <<"f", "i", "x", " ", "b", "u", "g">>
TextIllCheck == <<"I", "'", "l", "l", " ", "C", "h", "e", "c", "k">>
TextOngoing == <<"O", "N", "G", "O", "I", "N", "G">>

\* The display texts of the events: an empty one, one with no suspicious
\* phrase, and two that hold a suspicious phrase in another case.
CleanTexts == {<<>>, TextFixBug}
SuspiciousTexts == {TextIllCheck, TextOngoing}
Displays == CleanTexts \cup SuspiciousTexts

(***************************************************************************)
(* DevstralClient                                                          *)
(***************************************************************************)

\* A reply of the model is a sequence of tokens:
\*   fence    ```
\*   json     the word json, which right after a fence makes ```json
\*   JSON     the word JSON
\*   text     prose that is not JSON
\*   array    a JSON value that is not an object
\*   object   a JSON object; has = the keys it holds
ReplyToken(t, has, is_on_task, confidence) ==
    [t |-> t, has |-> has, is_on_task |-> is_on_task, confidence |-> confidence]

Fence == ReplyToken("fence", {}, FALSE, 0)
WordJson == ReplyToken("json", {}, FALSE, 0)
WordJSON == ReplyToken("JSON", {}, FALSE, 0)
Prose == ReplyToken("text", {}, FALSE, 0)
JsonArray == ReplyToken("array", {}, FALSE, 0)

\* message.content is None
NoContent == <<ReplyToken("None", {}, FALSE, 0)>>

RequiredKeys == {"is_on_task", "confidence", "reasoning"}

\* Confidences a reply can carry, in hundredths (150 is 1.5, -10 is -0.1).
Confidences == {-10, 69, 70, 79, 80, 89, 90, 150}

\* Off-task judgments at every confidence, and a confident on-task one.
FullObjects ==
    { ReplyToken("object", RequiredKeys, FALSE, c) : c \in Confidences }
    \cup { ReplyToken("object", RequiredKeys, TRUE, 90) }

PartialObjects ==
    { ReplyToken("object", RequiredKeys \ {k}, FALSE, 90) : k \in RequiredKeys }

\* What chat.completions.create does: raise (endpoint unreachable, timeout),
\* return no choice, or return a message with a content (which may be None).
Response(transport, content) == [transport |-> transport, content |-> content]

Responses ==
    {Response("error", <<>>), Response("nochoices", <<>>), Response("ok", NoContent)}
    \cup { Response("ok", <<o>>) : o \in FullObjects \cup PartialObjects }
    \cup { Response("ok", c) :
             c \in { <<>>, <<Prose>>, <<JsonArray>>,
                     <<Prose, ReplyToken("object", RequiredKeys, FALSE, 90)>>,
                     <<Fence, WordJson, ReplyToken("object", RequiredKeys, FALSE, 90), Fence>>,
                     <<Fence, ReplyToken("object", RequiredKeys, FALSE, 80), Fence, Prose>>,
                     <<Fence, WordJSON, ReplyToken("object", RequiredKeys, FALSE, 90), Fence>> } }

NoResponse == Response("none", <<>>)

AnalysisResult(is_on_task, confidence, reasoning) ==
    [is_on_task |-> is_on_task, confidence |-> confidence, reasoning |-> reasoning]

\* content.split("```")[0]: the tokens before the first fence
RECURSIVE UpToFence(_)
UpToFence(content) ==
    IF content = <<>> \/ Head(content) = Fence THEN <<>>
    ELSE <<Head(content)>> \o UpToFence(Tail(content))

\* The fenced block of _parse_analysis_response
StripFence(content) ==
    IF Len(content) >= 2 /\ content[1] = Fence /\ content[2] = WordJson
    THEN UpToFence(SubSeq(content, 3, Len(content)))
    ELSE IF Len(content) >= 1 /\ content[1] = Fence
    THEN UpToFence(SubSeq(content, 2, Len(content)))
    ELSE content

\* json.loads followed by AnalysisResult(**data): the judgment, or the
\* exception raised.
DecodeAnalysis(content) ==
    IF ~(Len(content) = 1 /\ content[1].t \in {"object", "array"})
    THEN [raised |-> "JSONDecodeError", value |-> AnalysisResult(TRUE, 0, "none")]
    ELSE IF content[1].t = "array"
    THEN [raised |-> "TypeError", value |-> AnalysisResult(TRUE, 0, "none")]
    ELSE IF \/ ~(RequiredKeys \subseteq content[1].has)
            \/ content[1].confidence < 0
            \/ content[1].confidence > 100
    THEN [raised |-> "ValidationError", value |-> AnalysisResult(TRUE, 0, "none")]
    ELSE [raised |-> "none",
          value |-> AnalysisResult(content[1].is_on_task, content[1].confidence, "model")]

\* The try block of _parse_analysis_response: content.strip() raises on
\* None; then the fence is removed and the rest decoded.
TryParse(content) ==
    IF content = NoContent
    THEN [raised |-> "AttributeError", value |-> AnalysisResult(TRUE, 0, "none")]
    ELSE DecodeAnalysis(StripFence(content))

\* _parse_analysis_response: every exception is caught and gives the default.
ParseAnalysisResponse(content) ==
    LET d == TryParse(content)
    IN  IF d.raised # "none"
        THEN AnalysisResult(TRUE, 0, "Failed to parse response")
        ELSE d.value

\* The try block of analyze_task_adherence without its handler: the
\* judgment, or the exception raised in it.
TryAnalyze(response) ==
    IF response.transport = "error"
    THEN [raised |-> "APIConnectionError", result |-> AnalysisResult(TRUE, 0, "none")]
    ELSE IF response.transport = "nochoices"
    THEN [raised |-> "IndexError", result |-> AnalysisResult(TRUE, 0, "none")]
    ELSE [raised |-> "none", result |-> ParseAnalysisResponse(response.content)]

\* analyze_task_adherence without its except clause
AnalyzeTaskAdherenceUncaught(response) ==
    TryAnalyze(response)

\* analyze_task_adherence: except Exception returns the default judgment.
AnalyzeTaskAdherence(response) ==
    LET t == TryAnalyze(response)
    IN  IF t.raised # "none"
        THEN [raised |-> "none", result |-> AnalysisResult(TRUE, 0, "Analysis failed")]
        ELSE t

(***************************************************************************)
(* TaskAnalyzer                                                            *)
(***************************************************************************)

\* Number of events process_event is given.
MaxEvents == 6

\* context_window_size, the maxlen of recent_events.
ContextWindowSize == 2

\* intervention_threshold, in hundredths.
InterventionThreshold == 70

check_frequency == 3

suspicious_patterns ==
    << <<"i", "'", "l", "l", " ", "m", "o", "n", "i", "t", "o", "r">>,
       <<"i", " ", "w", "i", "l", "l", " ", "m", "o", "n", "i", "t", "o", "r">>,
       <<"i", "'", "l", "l", " ", "c", "h", "e", "c", "k">>,
       <<"i", " ", "w", "i", "l", "l", " ", "c", "h", "e", "c", "k">>,
       <<"l", "a", "t", "e", "r", " ", "o", "n">>,
       <<"i", "n", " ", "t", "h", "e", " ", "f", "u", "t", "u", "r", "e">>,
       <<"i", "'", "l", "l", " ", "w", "a", "t", "c", "h">>,
       <<"i", " ", "w", "i", "l", "l", " ", "w", "a", "t", "c", "h">>,
       <<"i", "'", "l", "l", " ", "t", "r", "a", "c", "k">>,
       <<"i", " ", "w", "i", "l", "l", " ", "t", "r", "a", "c", "k">>,
       <<"c", "o", "n", "t", "i", "n", "u", "o", "u", "s", "l", "y">>,
       <<"o", "n", "g", "o", "i", "n", "g">> >>

\* _is_suspicious_activity without activity.lower()
IsSuspiciousActivityCaseSensitive(activity) ==
    \E k \in DOMAIN suspicious_patterns : Contains(activity, suspicious_patterns[k])

\* _is_suspicious_activity
IsSuspiciousActivity(activity) ==
    LET activity_lower == Lower(activity)
    IN  \E k \in DOMAIN suspicious_patterns : Contains(activity_lower, suspicious_patterns[k])

\* _is_suspicious_activity on each display text of the model, computed once
SuspiciousActivity == [d \in Displays |-> IsSuspiciousActivity(d)]

\* a list in place of the bounded deque
DequeAppendUnbounded(events, event, maxlen) ==
    Append(events, event)

\* deque(maxlen=...).append: the oldest element leaves a full deque.
DequeAppend(events, event, maxlen) ==
    IF maxlen = 0 THEN <<>>
    ELSE IF Len(events) >= maxlen
    THEN Append(SubSeq(events, Len(events) - maxlen + 2, Len(events)), event)
    ELSE Append(events, event)

\* the cadence test taken before the counter is incremented
CadenceDueOffByOne(count) == count % check_frequency = 1

\* event_count % check_frequency == 0
CadenceDue(count) == count % check_frequency = 0

\* should_intervene with > in place of >=
ShouldInterveneStrict(analysis, force) ==
    (~analysis.is_on_task /\ analysis.confidence > InterventionThreshold) \/ force

\* should_intervene of _trigger_analysis
ShouldIntervene(analysis, force) ==
    (~analysis.is_on_task /\ analysis.confidence >= InterventionThreshold) \/ force

\* _determine_severity with > in place of >=
DetermineSeverityStrict(analysis) ==
    IF analysis.confidence > 90 THEN "critical"
    ELSE IF analysis.confidence > 80 THEN "high"
    ELSE IF analysis.confidence > 70 THEN "medium"
    ELSE "low"

\* _determine_severity
DetermineSeverity(analysis) ==
    IF analysis.confidence >= 90 THEN "critical"
    ELSE IF analysis.confidence >= 80 THEN "high"
    ELSE IF analysis.confidence >= 70 THEN "medium"
    ELSE "low"

NoAnalysis == AnalysisResult(TRUE, 0, "none")

\* What a call of process_event that triggered nothing did.
NoTrigger ==
    [calls |-> 0, force |-> FALSE, response |-> NoResponse, raised |-> "none",
     analysis |-> NoAnalysis, decided |-> FALSE, severity |-> "none", delivered |-> FALSE]

\* _trigger_analysis, with the reply the classifier gives to this call.
TriggerAnalysis(instruction, force, response) ==
    IF Falsy(instruction) THEN NoTrigger
    ELSE LET a == AnalyzeTaskAdherence(response)
         IN  IF a.raised # "none"
             THEN [NoTrigger EXCEPT !.calls = 1, !.force = force, !.response = response,
                                    !.raised = a.raised]
             ELSE LET should_intervene == ShouldIntervene(a.result, force)
                  IN  [calls |-> 1, force |-> force, response |-> response, raised |-> "none",
                       analysis |-> a.result,
                       decided |-> should_intervene,
                       severity |-> IF should_intervene THEN DetermineSeverity(a.result) ELSE "none",
                       delivered |-> should_intervene /\ on_intervention]

NoEvent ==
    [pos |-> 0, display |-> <<>>, instruction |-> None, trigger |-> NoTrigger]

\* process_event, on the fields of the analyzer
ProcessEventStep(display, response) ==
    /\ event_count < MaxEvents
    /\ LET event == [display |-> display, timestamp |-> event_count + 1]
           count == event_count + 1
           instruction == IF Falsy(user_instruction) THEN display ELSE user_instruction
           trigger == IF SuspiciousActivity[display]
                      THEN TriggerAnalysis(instruction, TRUE, response)
                      ELSE IF CadenceDue(count)
                      THEN TriggerAnalysis(instruction, FALSE, response)
                      ELSE NoTrigger
       IN  /\ (trigger.calls = 0) <=> (response = NoResponse)
           /\ recent_events' = DequeAppend(recent_events, event, ContextWindowSize)
           /\ event_count' = count
           /\ user_instruction' = instruction
           /\ all_clean' = (all_clean /\ display \in CleanTexts)
           /\ last_event' = [pos |-> count, display |-> display,
                             instruction |-> instruction, trigger |-> trigger]
    /\ UNCHANGED <<on_intervention, current_todos, completed_todos>>

\* process_event with a classifier that drops the context once it replied
ProcessEvent(display, response) ==
    /\ ProcessEventStep(display, response)
    /\ UNCHANGED not_analyzer_vars

\* set_user_instruction
SetUserInstruction(instruction) ==
    /\ user_instruction' = instruction
    /\ current_todos' = <<>>
    /\ completed_todos' = <<>>
    /\ UNCHANGED <<on_intervention, recent_events, event_count, all_clean, last_event>>
    /\ UNCHANGED not_analyzer_vars

\* The todo lists update_todos is given (None: the argument is left out).
TodoLists == {<<>>, <<"write tests">>}

\* update_todos
UpdateTodos(current, completed) ==
    /\ current_todos' = IF current # None THEN current ELSE current_todos
    /\ completed_todos' = IF completed # None THEN completed ELSE completed_todos
    /\ UNCHANGED <<on_intervention, user_instruction, recent_events, event_count, all_clean,
                   last_event>>
    /\ UNCHANGED not_analyzer_vars

(***************************************************************************)
(* TaskContext (monitor/models.py).  recent_events is the one field built  *)
(* from an object the analyzer changes in place (the deque): a context     *)
(* holds either its own list of the events or the deque itself.  The       *)
(* instruction is an immutable string, and the todo lists are only ever    *)
(* replaced in the analyzer, never changed in place.                       *)
(***************************************************************************)

\* the deque itself handed on
EventsShared(events) == [shared |-> TRUE, items |-> <<>>]

\* list(self.recent_events): a new list of the events in the deque
EventsCopy(events) == [shared |-> FALSE, items |-> events]

\* TaskContext(user_instruction=..., recent_events=list(self.recent_events), ...)
TaskContext(instruction, events, current, completed) ==
    [taken |-> TRUE, user_instruction |-> instruction, recent_events |-> EventsCopy(events),
     current_todos |-> current, completed_todos |-> completed]

NoContext == [TaskContext(None, <<>>, <<>>, <<>>) EXCEPT !.taken = FALSE]

\* What a reader of the context finds in it now.
ContextView(c) ==
    [user_instruction |-> c.user_instruction,
     recent_events |-> IF c.recent_events.shared THEN recent_events ELSE c.recent_events.items,
     current_todos |-> c.current_todos,
     completed_todos |-> c.completed_todos]

NoContextTaken == [view |-> ContextView(NoContext), event |-> 0]

\* process_event with a classifier that keeps the context it was handed: a
\* trigger that reaches the classifier builds a new context.
ProcessEventKept(display, response) ==
    /\ ProcessEventStep(display, response)
    /\ IF last_event'.trigger.calls = 1
       THEN /\ context' = TaskContext(user_instruction', recent_events', current_todos,
                                      completed_todos)
            /\ context_taken' = [view |-> [user_instruction |-> user_instruction',
                                           recent_events |-> recent_events',
                                           current_todos |-> current_todos,
                                           completed_todos |-> completed_todos],
                                 event |-> event_count']
       ELSE UNCHANGED <<context, context_taken>>
    /\ UNCHANGED not_analyzer_context_vars

(***************************************************************************)
(* Interventor (monitor/interventor.py): the side-channel file.  A message *)
(* is a sequence of lines; a file is absent or holds a sequence of lines.  *)
(***************************************************************************)

\* Number of deliveries (interventions and answers) of a run.
MaxDeliveries == 2

Line(label, value) == [label |-> label, value |-> value]

\* "\n".join(lines) holds a text when one of its lines does.
MessageContains(message, text) ==
    \E i \in 1..Len(message) : message[i].value = text

Absent == [exists |-> FALSE, content |-> <<>>]

InterventionFile == "intervention.txt"

Paths == {"intervention.txt", "intervention.tmp"}

\* the message written straight to the delivery path
TempFileInPlace(path) == path

\* intervention_file.with_suffix('.tmp')
TempFile(path) == "intervention.tmp"

\* The judgments carried by the decisions delivered here.
DetailedAnalysis(confidence, issues, action) ==
    [is_on_task |-> FALSE, confidence |-> confidence,
     reasoning |-> "Editing unrelated files",
     detected_issues |-> issues, recommended_action |-> action]

DeliveredAnalyses ==
    { DetailedAnalysis(70, <<>>, ""),
      DetailedAnalysis(80, <<"Scope creep">>, "Return to the bug") }

RECURSIVE IssueLines(_, _)
IssueLines(prefix, issues) ==
    IF issues = <<>> THEN <<>>
    ELSE <<Line(prefix, Head(issues))>> \o IssueLines(prefix, Tail(issues))

\* _build_intervention_message
BuildInterventionMessage(analysis) ==
    <<Line("CLAUDE CODE APPEARS TO BE OFF-TASK", ""), Line("", ""),
      Line("Reasoning: ", analysis.reasoning), Line("", "")>>
    \o (IF analysis.detected_issues # <<>>
        THEN <<Line("Detected Issues:", "")>> \o IssueLines("  - ", analysis.detected_issues)
             \o <<Line("", "")>>
        ELSE <<>>)
    \o (IF analysis.recommended_action # ""
        THEN <<Line("Recommended Action:", ""), Line("  ", analysis.recommended_action),
               Line("", "")>>
        ELSE <<>>)
    \o <<Line("Consider redirecting Claude Code back to the original task.", "")>>

\* InterventionDecision(...) of _trigger_analysis
InterventionDecision(analysis) ==
    [should_intervene |-> TRUE, severity |-> DetermineSeverity(analysis),
     intervention_message |-> BuildInterventionMessage(analysis), analysis |-> analysis]

\* InterventionDecision(...) of _handle_question
AnswerDecision(answer) ==
    [should_intervene |-> TRUE, severity |-> "low",
     intervention_message |-> <<Line("Answer to your question:", ""), Line("", answer)>>,
     analysis |-> [is_on_task |-> TRUE, confidence |-> 100,
                   reasoning |-> "Answering Claude Code's question",
                   detected_issues |-> <<>>, recommended_action |-> ""]]

Answers == {"Yes", "Use pytest"}

Decisions ==
    { InterventionDecision(a) : a \in DeliveredAnalyses }
    \cup { AnswerDecision(answer) : answer \in Answers }

\* the message _write_intervention_file builds from the decision
FileMessage(decision) ==
    <<Line("STOP - Hawtcher Intervention Required", ""), Line("", ""),
      Line("Issue detected: ", decision.analysis.reasoning), Line("", "")>>
    \o (IF decision.analysis.detected_issues # <<>>
        THEN <<Line("Problems:", "")>> \o IssueLines("- ", decision.analysis.detected_issues)
             \o <<Line("", "")>>
        ELSE <<>>)
    \o (IF decision.analysis.recommended_action # ""
        THEN <<Line("Action required: ", decision.analysis.recommended_action)>>
        ELSE <<Line("Action required: Return to the original task immediately.", "")>>)

NoJob == [kind |-> "none", decision |-> AnswerDecision(""), message |-> <<>>]

NoDelivery == [kind |-> "none", decision |-> AnswerDecision(""), ok |-> FALSE,
               file_after |-> Absent, raised |-> "none", logged |-> FALSE, delivered |-> 0,
               interventions |-> 0]

\* no except clause: the error leaves the method
ExceptNothing(error) == error

\* except Exception as e: the error is printed and the method goes on
ExceptException(error) == "none"

\* intervene, up to the call of _write_intervention_file
Intervene(decision) ==
    /\ write_pc = "idle"
    /\ intervention_count < MaxDeliveries
    /\ intervention_count' = intervention_count + 1
    /\ write_job' = [kind |-> "intervention", decision |-> decision,
                     message |-> FileMessage(decision)]
    /\ write_pc' = "start"
    /\ UNCHANGED <<fs, log_path, audit_log, observed, committed, last_delivery>>
    /\ UNCHANGED not_delivery_vars

\* the answer handed to intervene instead
AnswerWriteCounted(answer) ==
    /\ write_pc = "idle"
    /\ intervention_count < MaxDeliveries
    /\ intervention_count' = intervention_count + 1
    /\ write_job' = [kind |-> "answer", decision |-> AnswerDecision(answer),
                     message |-> FileMessage(AnswerDecision(answer))]
    /\ write_pc' = "start"
    /\ UNCHANGED <<fs, log_path, audit_log, observed, committed, last_delivery>>
    /\ UNCHANGED not_delivery_vars

\* the call of _write_intervention_file that ends _handle_question
AnswerWrite(answer) ==
    /\ write_pc = "idle"
    /\ write_job' = [kind |-> "answer", decision |-> AnswerDecision(answer),
                     message |-> FileMessage(AnswerDecision(answer))]
    /\ write_pc' = "start"
    /\ UNCHANGED <<fs, intervention_count, log_path, audit_log, observed, committed,
                   last_delivery>>
    /\ UNCHANGED not_delivery_vars

\* open(temp_file, "w"): the temporary file is created, or truncated
OpenTemp ==
    /\ write_pc = "start"
    /\ fs' = [fs EXCEPT ![TempFile(InterventionFile)] = [exists |-> TRUE, content |-> <<>>]]
    /\ write_pc' = "opened"
    /\ UNCHANGED <<write_job, intervention_count, log_path, audit_log, observed, committed,
                   last_delivery>>
    /\ UNCHANGED not_delivery_vars

\* f.write(message): the message reaches the temporary file line by line
WriteLine ==
    /\ write_pc = "opened"
    /\ LET temp == TempFile(InterventionFile)
           n == Len(fs[temp].content)
       IN  /\ fs[temp].exists
           /\ n < Len(write_job.message)
           /\ fs' = [fs EXCEPT ![temp].content = Append(@, write_job.message[n + 1])]
    /\ UNCHANGED <<write_pc, write_job, intervention_count, log_path, audit_log, observed,
                   committed, last_delivery>>
    /\ UNCHANGED not_delivery_vars

\* the end of the with block: the whole message is in the temporary file
CloseTemp ==
    /\ write_pc = "opened"
    /\ LET temp == TempFile(InterventionFile)
       IN  fs[temp].exists /\ fs[temp].content = write_job.message
    /\ write_pc' = "closed"
    /\ UNCHANGED <<fs, write_job, intervention_count, log_path, audit_log, observed,
                   committed, last_delivery>>
    /\ UNCHANGED not_delivery_vars

\* The rest of the caller once _write_intervention_file is over: intervene
\* displays the decision and logs it when a log path was given; a failure
\* to log is caught.
AfterWrite(ok, log_ok, fs_after) ==
    LET write_raised == IF ok THEN "none" ELSE ExceptException("OSError")
        log_tried == write_job.kind = "intervention" /\ log_path /\ write_raised = "none"
        log_raised == IF log_tried /\ ~log_ok THEN ExceptException("OSError") ELSE "none"
    IN
    /\ write_pc' = "idle"
    /\ write_job' = NoJob
    /\ audit_log' = IF log_tried /\ log_ok
                    THEN Append(audit_log,
                                [seq |-> intervention_count,
                                 severity |-> write_job.decision.severity,
                                 message |-> write_job.decision.intervention_message])
                    ELSE audit_log
    /\ last_delivery' = [kind |-> write_job.kind, decision |-> write_job.decision,
                         ok |-> ok, file_after |-> fs_after[InterventionFile],
                         raised |-> IF write_raised # "none" THEN write_raised ELSE log_raised,
                         logged |-> log_tried /\ log_ok,
                         delivered |-> last_delivery.delivered
                                       + (IF write_job.kind = "intervention" /\ ok THEN 1 ELSE 0),
                         interventions |-> last_delivery.interventions
                                       + (IF write_job.kind = "intervention" THEN 1 ELSE 0)]
    /\ UNCHANGED <<intervention_count, log_path, observed>>
    /\ UNCHANGED not_delivery_vars

\* temp_file.replace(intervention_file)
Replace(log_ok) ==
    /\ write_pc = "closed"
    /\ LET temp == TempFile(InterventionFile)
           replaced == IF temp = InterventionFile THEN fs
                       ELSE [fs EXCEPT ![InterventionFile] = fs[temp], ![temp] = Absent]
       IN  /\ fs[temp].exists
           /\ fs' = replaced
           /\ committed' = committed \cup {fs[temp].content}
           /\ AfterWrite(TRUE, log_ok, replaced)

\* an I/O error in open, write or replace, caught by except Exception
WriteFails(log_ok) ==
    /\ write_pc \in {"start", "opened", "closed"}
    /\ UNCHANGED <<fs, committed>>
    /\ AfterWrite(FALSE, log_ok, fs)

\* The reader of the delivery path (the hook of the observed process) reads
\* whatever is at the path.
ReaderRead ==
    /\ observed' = fs[InterventionFile]
    /\ UNCHANGED <<fs, write_pc, write_job, intervention_count, log_path, audit_log,
                   committed, last_delivery>>
    /\ UNCHANGED not_delivery_vars

\* The reader clears the message it consumed.
ReaderClear ==
    /\ fs[InterventionFile].exists
    /\ fs' = [fs EXCEPT ![InterventionFile] = Absent]
    /\ UNCHANGED <<write_pc, write_job, intervention_count, log_path, audit_log, observed,
                   committed, last_delivery>>
    /\ UNCHANGED not_delivery_vars

(***************************************************************************)
(* Question answering: QuestionAnswerer (monitor/question_answerer.py),    *)
(* TelegramRelay (monitor/telegram_relay.py) and                           *)
(* HawtcherApp._handle_question (hawtcher.py).  The asking thread runs     *)
(* _handle_question and ask_question; the listener thread runs the         *)
(* handlers of the relay.  A handler is two steps, the test of             *)
(* waiting_for_answer and the put, so that the asking thread can run       *)
(* between them.                                                           *)
(***************************************************************************)

\* Number of questions of a run.
MaxQuestions == 2

\* Number of replies the human sends in a run.
MaxReplies == 2

\* Settings.question_confidence_threshold
QuestionConfidenceThreshold == 95

\* What the answering model gives back: the call fails, the content does not
\* parse, or it parses to an object in which each key may be missing.
AnswerData(has_answer, answer, has_confidence, confidence) ==
    [kind |-> "object", has_answer |-> has_answer, answer |-> answer,
     has_confidence |-> has_confidence, confidence |-> confidence]

AnswerError == [AnswerData(FALSE, "", FALSE, 0) EXCEPT !.kind = "error"]

AnswerUnparsable == [AnswerData(FALSE, "", FALSE, 0) EXCEPT !.kind = "unparsable"]

AnswerReplies ==
    {AnswerError, AnswerUnparsable}
    \cup { AnswerData(TRUE, answer, TRUE, confidence) :
             answer \in {"", "Yes"}, confidence \in {94, 95, 150} }
    \cup { AnswerData(FALSE, "", TRUE, 95), AnswerData(TRUE, "Yes", FALSE, 0) }

AnswerAttempt(answer, confidence, should_ask_user) ==
    [answer |-> answer, confidence |-> confidence, should_ask_user |-> should_ask_user]

\* max(0.0, min(1.0, confidence))
Clamp(confidence) ==
    IF confidence < 0 THEN 0 ELSE IF confidence > 100 THEN 100 ELSE confidence

\* should_ask_user with <= in place of <
ShouldAskUserInclusive(confidence) == confidence <= confidence_threshold

\* should_ask_user = confidence < self.confidence_threshold
ShouldAskUser(confidence) == confidence < confidence_threshold

\* _parse_answer_response
ParseAnswerResponse(data) ==
    IF data.kind = "unparsable" THEN AnswerAttempt("", 0, TRUE)
    ELSE LET answer == IF data.has_answer THEN data.answer ELSE ""
             confidence == Clamp(IF data.has_confidence THEN data.confidence ELSE 0)
         IN  AnswerAttempt(answer, confidence, ShouldAskUser(confidence))

\* try_answer
TryAnswer(data) ==
    IF data.kind = "error" THEN AnswerAttempt("", 0, TRUE)
    ELSE ParseAnswerResponse(data)

NoAttempt == [called |-> FALSE, data |-> AnswerError, attempt |-> AnswerAttempt("", 0, TRUE)]

\* a call of try_answer, with what the answering model gives back
TryAnswerCall(data) ==
    /\ last_attempt' = [called |-> TRUE, data |-> data, attempt |-> TryAnswer(data)]
    /\ UNCHANGED confidence_threshold
    /\ UNCHANGED not_answerer_vars

\* the fallback without the fixed text
FallbackAnswerOnly(attempt) == attempt.answer

\* answer_attempt.answer or "Please clarify your question."
Fallback(attempt) ==
    IF attempt.answer # "" THEN attempt.answer ELSE "Please clarify your question."

NoChat == "None"

\* The chats that write to the bot.
Senders == {"chat", "other"}

\* A reply that reaches the bot: the chat it comes from, its text and the
\* question it was given to (0: none).
Reply(sender, text, re) == [sender |-> sender, text |-> text, re |-> re]

\* ask_question returned None
NoReply == Reply(NoChat, "", 0)

\* the answer of the human never used
ResolveAnswerIgnoringHuman(attempt, relay, user_answer) ==
    IF attempt.should_ask_user THEN Fallback(attempt) ELSE attempt.answer

\* the answer _handle_question settles on
ResolveAnswer(attempt, relay, user_answer) ==
    IF attempt.should_ask_user
    THEN IF relay
         THEN IF user_answer # "" THEN user_answer ELSE Fallback(attempt)
         ELSE Fallback(attempt)
    ELSE attempt.answer

\* current_question_id left as it is
NextQuestionIdSame(id) == id

\* self.current_question_id += 1
NextQuestionId(id) == id + 1

NoQuestion ==
    [attempt |-> AnswerAttempt("", 0, TRUE), id_before |-> 0, window |-> <<>>,
     result |-> NoReply, timed_out |-> FALSE, send_failed |-> FALSE]

NoHandler == [pc |-> "idle", reply |-> NoReply]

NoOutcome ==
    [n |-> 0, attempt |-> AnswerAttempt("", 0, TRUE), relay |-> FALSE, chat_known |-> FALSE,
     called |-> FALSE, forwarded |-> FALSE, id_before |-> 0, id_after |-> 0,
     waiting_after |-> FALSE, window |-> <<>>, returned |-> NoReply, timed_out |-> FALSE,
     answer |-> "", write_ok |-> FALSE, file_after |-> Absent, send_failed |-> FALSE,
     raised |-> "none"]

\* _write_intervention_file as one step of the asking thread
WriteInterventionFile(files, decision, ok) ==
    IF ok
    THEN [files EXCEPT ![InterventionFile] = [exists |-> TRUE, content |-> FileMessage(decision)],
                       ![TempFile(InterventionFile)] = Absent]
    ELSE files

\* The end of _handle_question: the answer is settled, written to the
\* side-channel file and returned.
Resolve(attempt, called, forwarded, id_before, window, returned, timed_out, send_failed, write_ok) ==
    LET answer == ResolveAnswer(attempt, relay_configured, returned.text)
        files == WriteInterventionFile(fs, AnswerDecision(answer), write_ok)
    IN  /\ fs' = files
        /\ questions' = questions + 1
        /\ last_question' =
              [n |-> questions + 1, attempt |-> attempt, relay |-> relay_configured,
               chat_known |-> chat_id # NoChat, called |-> called, forwarded |-> forwarded,
               id_before |-> id_before, id_after |-> current_question_id',
               waiting_after |-> waiting_for_answer', window |-> window,
               returned |-> returned, timed_out |-> timed_out,
               answer |-> answer, write_ok |-> write_ok,
               file_after |-> files[InterventionFile], send_failed |-> send_failed,
               raised |-> "none"]

\* _handle_question up to the first point where another thread matters: the
\* question is settled at once, or ask_question passes its recipient test,
\* takes the next question id and raises waiting_for_answer.
HandleQuestion(data, write_ok) ==
    /\ ask_pc = "idle"
    /\ questions < MaxQuestions
    /\ LET attempt == TryAnswer(data)
       IN  IF attempt.should_ask_user /\ relay_configured /\ chat_id # NoChat
           THEN /\ write_ok
                /\ current_question_id' = NextQuestionId(current_question_id)
                /\ waiting_for_answer' = TRUE
                /\ ask_pc' = "drain"
                /\ question' = [NoQuestion EXCEPT !.attempt = attempt,
                                                  !.id_before = current_question_id]
                /\ UNCHANGED <<fs, questions, last_question>>
           ELSE /\ UNCHANGED <<current_question_id, waiting_for_answer, ask_pc, question>>
                /\ Resolve(attempt, attempt.should_ask_user /\ relay_configured, FALSE,
                           current_question_id, <<>>, NoReply, FALSE, FALSE, write_ok)
    /\ UNCHANGED <<relay_configured, chat_id, answer_queue, handler, sent, unreachable, replies>>
    /\ UNCHANGED not_question_vars

\* one turn of the loop that clears old answers
AskDrain ==
    /\ ask_pc = "drain"
    /\ IF answer_queue = <<>>
       THEN ask_pc' = "send" /\ UNCHANGED answer_queue
       ELSE answer_queue' = Tail(answer_queue) /\ UNCHANGED ask_pc
    /\ UNCHANGED <<fs, relay_configured, chat_id, waiting_for_answer, current_question_id,
                   question, handler, sent, unreachable, replies, questions, last_question>>
    /\ UNCHANGED not_question_vars

\* run_coroutine_threadsafe(self._send_question(...), self.loop): the send is
\* handed to the listener's loop and its result is never looked at; send_ok
\* tells whether send_message reaches the endpoint.
\* While self.loop is still None the call itself raises
\* (None has no call_soon_threadsafe), and the error leaves ask_question and
\* _handle_question at once.
AskSend(send_ok) ==
    /\ ask_pc = "send"
    /\ IF loop
       THEN /\ sent' = sent \cup {current_question_id}
            /\ unreachable' = IF send_ok THEN unreachable
                              ELSE unreachable \cup {current_question_id}
            /\ question' = [question EXCEPT !.send_failed = ~send_ok]
            /\ ask_pc' = "get"
            /\ UNCHANGED <<questions, last_question>>
       ELSE /\ send_ok
            /\ ask_pc' = "idle"
            /\ question' = NoQuestion
            /\ questions' = questions + 1
            /\ last_question' =
                  [NoOutcome EXCEPT !.n = questions + 1, !.attempt = question.attempt,
                                    !.relay = relay_configured, !.chat_known = TRUE,
                                    !.called = TRUE, !.id_before = question.id_before,
                                    !.id_after = current_question_id,
                                    !.waiting_after = waiting_for_answer,
                                    !.raised = "AttributeError"]
            /\ UNCHANGED <<sent, unreachable>>
    /\ UNCHANGED <<fs, relay_configured, chat_id, answer_queue, waiting_for_answer,
                   current_question_id, handler, replies>>
    /\ UNCHANGED not_question_vars

\* answer_queue.get(timeout=...) returns the oldest answer
AskGet ==
    /\ ask_pc = "get"
    /\ answer_queue # <<>>
    /\ question' = [question EXCEPT !.result = Head(answer_queue)]
    /\ answer_queue' = Tail(answer_queue)
    /\ ask_pc' = "got"
    /\ UNCHANGED <<fs, relay_configured, chat_id, waiting_for_answer, current_question_id,
                   handler, sent, unreachable, replies, questions, last_question>>
    /\ UNCHANGED not_question_vars

\* the wait that never ends
AskTimeoutNever ==
    /\ FALSE
    /\ UNCHANGED vars

\* answer_queue.get(timeout=...) raises Empty once the timeout has passed
AskTimeout ==
    /\ ask_pc = "get"
    /\ answer_queue = <<>>
    /\ question' = [question EXCEPT !.result = NoReply, !.timed_out = TRUE]
    /\ ask_pc' = "got"
    /\ UNCHANGED <<fs, relay_configured, chat_id, answer_queue, waiting_for_answer,
                   current_question_id, handler, sent, unreachable, replies, questions, last_question>>
    /\ UNCHANGED not_question_vars

\* waiting_for_answer = False; return; the rest of _handle_question
AskReturn(write_ok) ==
    /\ ask_pc = "got"
    /\ waiting_for_answer' = FALSE
    /\ ask_pc' = "idle"
    /\ question' = NoQuestion
    /\ UNCHANGED current_question_id
    /\ Resolve(question.attempt, TRUE, TRUE, question.id_before, question.window,
               question.result, question.timed_out, question.send_failed, write_ok)
    /\ UNCHANGED <<relay_configured, chat_id, answer_queue, handler, sent, unreachable, replies>>
    /\ UNCHANGED not_question_vars

\* TelegramRelay.start and the first statement of _run_bot: the listener
\* thread creates its event loop and stores it in self.loop.
RunBot ==
    /\ relay_configured
    /\ ~loop
    /\ loop' = TRUE
    /\ UNCHANGED <<fs, relay_configured, chat_id, answer_queue, waiting_for_answer,
                   current_question_id, ask_pc, question, handler, sent, unreachable, replies,
                   questions, last_question, telegram_chat_id, detected>>
    /\ UNCHANGED not_relay_vars

\* every /start taken for the first one
IsFirstContactAlways(id) == TRUE

\* not self.chat_id
IsFirstContact(id) == id = NoChat

\* _handle_start, for a /start that comes from the chat sender
HandleStart(sender) ==
    /\ relay_configured
    /\ loop
    /\ handler.pc = "idle"
    /\ LET first == IsFirstContact(chat_id)
           user_chat_id == sender
       IN  /\ chat_id' = IF first THEN user_chat_id ELSE chat_id
           /\ detected' = IF first THEN Append(detected, user_chat_id) ELSE detected
    /\ UNCHANGED <<fs, relay_configured, answer_queue, waiting_for_answer,
                   current_question_id, ask_pc, question, handler, sent, unreachable, replies,
                   questions, last_question, telegram_chat_id, loop>>
    /\ UNCHANGED not_relay_vars

\* The test of waiting_for_answer that opens _handle_message and
\* _handle_button: the reply is turned away, or kept for the put.
HandlerCheck(reply) ==
    /\ relay_configured
    /\ loop
    /\ handler.pc = "idle"
    /\ replies < MaxReplies
    /\ replies' = replies + 1
    /\ handler' = IF waiting_for_answer THEN [pc |-> "checked", reply |-> reply]
                  ELSE NoHandler
    /\ UNCHANGED <<fs, relay_configured, chat_id, answer_queue, waiting_for_answer,
                   current_question_id, ask_pc, question, sent, unreachable, questions, last_question>>
    /\ UNCHANGED not_question_vars

\* _handle_message: a text typed in the chat sender; the recipient types it
\* in reply to the question re, another chat has seen no question (re = 0).
HandleMessage(sender, text, re) ==
    /\ IF sender = chat_id THEN re \in sent \ unreachable ELSE re = 0
    /\ HandlerCheck(Reply(sender, text, re))

\* _handle_button: a button under the message of the question re, which is
\* shown in the chat of the recipient only
HandleButton(sender, data, re) ==
    /\ sender = chat_id
    /\ re \in sent \ unreachable
    /\ HandlerCheck(Reply(sender, data, re))

\* self.answer_queue.put(...)
HandlerPut ==
    /\ handler.pc = "checked"
    /\ answer_queue' = Append(answer_queue, handler.reply)
    /\ question' = IF ask_pc \in {"send", "get"}
                   THEN [question EXCEPT !.window = Append(@, handler.reply)]
                   ELSE question
    /\ handler' = NoHandler
    /\ UNCHANGED <<fs, relay_configured, chat_id, waiting_for_answer, current_question_id,
                   ask_pc, sent, unreachable, replies, questions, last_question>>
    /\ UNCHANGED not_question_vars

(***************************************************************************)
(* QuestionDetector (monitor/question_detector.py).  A pattern is the      *)
(* alternatives of its literal part, in lower case since the patterns are  *)
(* compiled with IGNORECASE, with what the pattern asks before it (start:  *)
(* "bol" for ^ under MULTILINE, "wb" for \b, "any") and after it (end:     *)
(* "eol" for $ under MULTILINE, "wb" for \b, "wb_then_q" for \b.*\?,       *)
(* "none").                                                                *)
(***************************************************************************)

QUESTION_PATTERNS ==
    << [start |-> "any", end |-> "eol",
           lits |-> { <<"?">> }],
       [start |-> "bol", end |-> "wb",
           lits |-> { <<"s", "h", "o", "u", "l", "d", " ", "i">> }],
       [start |-> "bol", end |-> "wb",
           lits |-> { <<"w", "h", "i", "c", "h">> }],
       [start |-> "bol", end |-> "none",
           lits |-> { <<"d", "o", " ", "y", "o", "u", " ", "w", "a", "n", "t">> }],
       [start |-> "bol", end |-> "none",
           lits |-> { <<"w", "o", "u", "l", "d", " ", "y", "o", "u", " ", "l", "i", "k", "e">> }],
       [start |-> "bol", end |-> "wb",
           lits |-> { <<"c", "a", "n", " ", "i">> }],
       [start |-> "bol", end |-> "wb",
           lits |-> { <<"m", "a", "y", " ", "i">> }],
       [start |-> "bol", end |-> "wb",
           lits |-> { <<"c", "o", "u", "l", "d", " ", "y", "o", "u">> }],
       [start |-> "bol", end |-> "wb",
           lits |-> { <<"w", "o", "u", "l", "d", " ", "y", "o", "u">> }],
       [start |-> "bol", end |-> "none",
           lits |-> { <<"p", "l", "e", "a", "s", "e", " ", "c", "o", "n", "f", "i", "r", "m">>,
                      <<"p", "l", "e", "a", "s", "e", " ", "c", "h", "o", "o", "s", "e">>,
                      <<"p", "l", "e", "a", "s", "e", " ", "s", "e", "l", "e", "c", "t">>,
                      <<"p", "l", "e", "a", "s", "e", " ", "s", "p", "e", "c", "i", "f", "y">>,
                      <<"p", "l", "e", "a", "s", "e", " ", "c", "l", "a", "r", "i", "f", "y">> }],
       [start |-> "wb", end |-> "none",
           lits |-> { <<"c", "o", "n", "f", "i", "r", "m", "?">> }],
       [start |-> "wb", end |-> "wb_then_q",
           lits |-> { <<"c", "h", "o", "o", "s", "e">> }],
       [start |-> "wb", end |-> "wb_then_q",
           lits |-> { <<"p", "r", "e", "f", "e", "r">> }],
       [start |-> "wb", end |-> "wb_then_q",
           lits |-> { <<"o", "r">> }] >>

RHETORICAL_PATTERNS ==
    << [start |-> "bol", end |-> "none",
           lits |-> { <<"w", "h", "a", "t", " ", "i", "s">>,
                      <<"w", "h", "a", "t", " ", "a", "r", "e">>,
                      <<"w", "h", "a", "t", " ", "w", "a", "s">>,
                      <<"w", "h", "a", "t", " ", "w", "e", "r", "e">>,
                      <<"w", "h", "a", "t", " ", "d", "o", "e", "s">>,
                      <<"w", "h", "a", "t", " ", "d", "i", "d">> }],
       [start |-> "bol", end |-> "none",
           lits |-> { <<"h", "o", "w", " ", "d", "o", "e", "s", " ", "t", "h", "i", "s">>,
                      <<"h", "o", "w", " ", "d", "o", "e", "s", " ", "t", "h", "a", "t">>,
                      <<"h", "o", "w", " ", "d", "o", "e", "s", " ", "i", "t">>,
                      <<"h", "o", "w", " ", "d", "i", "d", " ", "t", "h", "i", "s">>,
                      <<"h", "o", "w", " ", "d", "i", "d", " ", "t", "h", "a", "t">>,
                      <<"h", "o", "w", " ", "d", "i", "d", " ", "i", "t">>,
                      <<"h", "o", "w", " ", "c", "a", "n", " ", "t", "h", "i", "s">>,
                      <<"h", "o", "w", " ", "c", "a", "n", " ", "t", "h", "a", "t">>,
                      <<"h", "o", "w", " ", "c", "a", "n", " ", "i", "t">>,
                      <<"h", "o", "w", " ", "s", "h", "o", "u", "l", "d", " ", "t", "h", "i", "s">>,
                      <<"h", "o", "w", " ", "s", "h", "o", "u", "l", "d", " ", "t", "h", "a", "t">>,
                      <<"h", "o", "w", " ", "s", "h", "o", "u", "l", "d", " ", "i", "t">> }],
       [start |-> "bol", end |-> "none",
           lits |-> { <<"w", "h", "y", " ", "i", "s">>,
                      <<"w", "h", "y", " ", "a", "r", "e">>,
                      <<"w", "h", "y", " ", "d", "o", "e", "s">>,
                      <<"w", "h", "y", " ", "d", "i", "d">> }],
       [start |-> "bol", end |-> "none",
           lits |-> { <<"l", "e", "t", " ", "m", "e", " ", "c", "h", "e", "c", "k">>,
                      <<"l", "e", "t", " ", "m", "e", " ", "s", "e", "e">>,
                      <<"l", "e", "t", " ", "m", "e", " ", "v", "e", "r", "i", "f", "y">>,
                      <<"l", "e", "t", " ", "m", "e", " ", "a", "n", "a", "l", "y", "z", "e">> }] >>

\* \w, on a text in lower case
IsWordChar(c) ==
    c \in {LowerCase[k] : k \in DOMAIN LowerCase}
          \cup {"0", "1", "2", "3", "4", "5", "6", "7", "8", "9", "_"}

\* What the pattern asks of the place before position i.
StartHolds(t, i, start) ==
    CASE start = "bol" -> i = 1 \/ t[i - 1] = "\n"
      [] start = "wb"  -> i = 1 \/ ~IsWordChar(t[i - 1])
      [] OTHER         -> TRUE

\* What the pattern asks of the text after position j.
EndHolds(t, j, end) ==
    CASE end = "eol" -> j = Len(t) \/ t[j + 1] = "\n"
      [] end = "wb"  -> j = Len(t) \/ ~IsWordChar(t[j + 1])
      [] end = "wb_then_q" ->
            /\ j = Len(t) \/ ~IsWordChar(t[j + 1])
            /\ \E k \in (j + 1)..Len(t) :
                  t[k] = "?" /\ \A m \in (j + 1)..(k - 1) : t[m] # "\n"
      [] OTHER       -> TRUE

\* pattern.search(text)
Search(pattern, text) ==
    LET t == Lower(text)
    IN  \E lit \in pattern.lits :
        \E i \in 1..(Len(t) - Len(lit) + 1) :
            /\ SubSeq(t, i, i + Len(lit) - 1) = lit
            /\ StartHolds(t, i, pattern.start)
            /\ EndHolds(t, i + Len(lit) - 1, pattern.end)

AnySearch(patterns, text) ==
    \E k \in DOMAIN patterns : Search(patterns[k], text)

\* len(text.strip()) == 0
IsBlank(text) ==
    \A i \in DOMAIN text : text[i] \in {" ", "\n", "\t"}

\* is_question with the question patterns tried before the rhetorical ones
IsQuestionPatternsFirst(text) ==
    IF text = <<>> \/ IsBlank(text) THEN FALSE
    ELSE IF AnySearch(QUESTION_PATTERNS, text) THEN TRUE
    ELSE FALSE

\* is_question
IsQuestion(text) ==
    IF text = <<>> \/ IsBlank(text) THEN FALSE
    ELSE IF AnySearch(RHETORICAL_PATTERNS, text) THEN FALSE
    ELSE IF AnySearch(QUESTION_PATTERNS, text) THEN TRUE
    ELSE FALSE

TextEmpty == <<>>
TextBlank == <<" ", " ">>
TextWhatIs == <<"W", "h", "a", "t", " ", "i", "s", " ", "t", "h", "i", "s", " ", "v", "a", "r", "i", "a", "b", "l", "e", " ", "f", "o", "r", "?">>
TextLetMeCheck == <<"L", "e", "t", " ", "m", "e", " ", "c", "h", "e", "c", "k", " ", "t", "h", "e", " ", "c", "o", "n", "f", "i", "g", " ", "f", "i", "l", "e", ".">>
TextShouldI == <<"S", "h", "o", "u", "l", "d", " ", "I", " ", "u", "s", "e", " ", "P", "o", "s", "t", "g", "r", "e", "S", "Q", "L", " ", "o", "r", " ", "M", "y", "S", "Q", "L", "?">>
TextDone == <<"D", "o", "n", "e", ".">>
TextWhyNot == <<"w", "h", "y", " ", "n", "o", "t", "?">>
TextWhichever == <<"W", "h", "i", "c", "h", "e", "v", "e", "r", " ", "w", "o", "r", "k", "s">>
TextSecondLine == <<"o", "k", "\n", "W", "h", "a", "t", " ", "i", "s", " ", "n", "e", "x", "t", "?">>
TextMidQuestion == <<"G", "o", " ", "o", "n", "?", "\n", "o", "k">>
TextWhichOne == <<"W", "H", "I", "C", "H", " ", "o", "n", "e">>

\* The texts given to the detector.
DetectorTexts ==
    { TextEmpty, TextBlank, TextWhatIs, TextLetMeCheck, TextShouldI, TextDone, TextWhyNot, TextWhichever, TextSecondLine, TextMidQuestion, TextWhichOne }

NoDetect == [called |-> FALSE, text |-> <<>>, result |-> FALSE]

TextLetMeThenShould == <<"L", "e", "t", " ", "m", "e", " ", "s", "e", "e", ".", "\n", "S", "h", "o", "u", "l", "d", " ", "I", " ", "g", "o", "?">>
TextIndented == <<"o", "k", "\n", " ", " ", "C", "a", "n", " ", "I", " ", "g", "o", " ", "\n", "M", "a", "y", " ", "I", "?">>

\* The texts given to extract_question.
ExtractTexts == DetectorTexts \cup {TextLetMeThenShould, TextIndented}

\* str.strip() on the characters of the model
StripText(text) ==
    LET inked == { i \in DOMAIN text : text[i] \notin {" ", "\n", "\t"} }
    IN  IF inked = {} THEN <<>>
        ELSE SubSeq(text, CHOOSE i \in inked : \A j \in inked : i <= j,
                          CHOOSE i \in inked : \A j \in inked : i >= j)

\* text.split('\n')
RECURSIVE SplitLines(_)
SplitLines(text) ==
    LET breaks == { i \in DOMAIN text : text[i] = "\n" }
    IN  IF breaks = {} THEN <<text>>
        ELSE LET b == CHOOSE i \in breaks : \A j \in breaks : i <= j
             IN  <<SubSeq(text, 1, b - 1)>> \o SplitLines(SubSeq(text, b + 1, Len(text)))

\* the stripped lines of the text that is_question accepts, in order
QuestionLines(text) ==
    LET lines == SplitLines(text)
        stripped == [i \in DOMAIN lines |-> StripText(lines[i])]
    IN  SelectSeq(stripped, IsQuestion)

\* extract_question
ExtractQuestion(text) ==
    IF ~IsQuestion(text) THEN None
    ELSE LET found == QuestionLines(text)
         IN  IF found = <<>>
             THEN IF \E i \in DOMAIN text : text[i] = "?" THEN StripText(text) ELSE None
             ELSE found[1]

NoExtract == [called |-> FALSE, text |-> <<>>, result |-> None]

\* a call of extract_question
ExtractQuestionCall(text) ==
    /\ last_extract' = [called |-> TRUE, text |-> text, result |-> ExtractQuestion(text)]
    /\ UNCHANGED <<construction, last_detect, last_ingest>>
    /\ UNCHANGED not_detector_vars

\* a call of is_question
IsQuestionCall(text) ==
    /\ last_detect' = [called |-> TRUE, text |-> text, result |-> IsQuestion(text)]
    /\ UNCHANGED <<construction, last_ingest, last_extract>>
    /\ UNCHANGED not_detector_vars

\* The keywords TaskAnalyzer.__init__ accepts.
AnalyzerKeywords ==
    {"llm_client", "context_window_size", "intervention_threshold", "on_intervention"}

\* The keywords HawtcherApp.__init__ gives to TaskAnalyzer.
AppKeywords ==
    AnalyzerKeywords \cup {"question_detector", "question_answerer", "on_question"}

\* TaskAnalyzer(...): a keyword the constructor does not accept is a TypeError.
BuildAnalyzer(keywords) ==
    /\ construction = "none"
    /\ construction' = IF keywords \subseteq AnalyzerKeywords THEN "built" ELSE "TypeError"
    /\ UNCHANGED <<last_detect, last_ingest, last_extract>>
    /\ UNCHANGED not_detector_vars

NoIngest ==
    [n |-> 0, text |-> <<>>, detector_called |-> FALSE, attempt_requested |-> FALSE,
     handled |-> FALSE]

\* What process_event does about a question in the text of an event: it has
\* no detector, no answerer and no question handler, and calls none.
ProcessEventQuestion(text) ==
    /\ construction = "built"
    /\ last_ingest' = [n |-> 1, text |-> text, detector_called |-> FALSE,
                       attempt_requested |-> FALSE, handled |-> FALSE]
    /\ UNCHANGED <<construction, last_detect, last_extract>>
    /\ UNCHANGED not_detector_vars

(***************************************************************************)
(* HawtcherApp.start and stop (hawtcher.py) around the polling loop of     *)
(* HistoryMonitor (monitor/watcher.py).  The main thread is at "created"   *)
(* before start, at "entering" between the try of start and the try of     *)
(* _run_polling_mode, at "polling" inside the loop, and at "returned" once *)
(* start has returned.                                                     *)
(***************************************************************************)

\* The while loop of _run_polling_mode is left by any exception that
\* force_check lets through: only KeyboardInterrupt is caught around it.
PollingLoopRunning ==
    last_read.outcome \notin {"TypeError", "UnicodeDecodeError"}

\* one turn of the loop of _run_polling_mode
PollTick ==
    /\ PollingLoopRunning
    /\ ForceCheck

NoStarted == [called |-> FALSE, response |-> NoResponse, test_ok |-> FALSE, relay_started |-> FALSE]

NoStopped ==
    [interrupted_at |-> "none", app_stop |-> FALSE, monitor_stop |-> FALSE,
     relay_stop |-> FALSE, relay_joined |-> FALSE]

\* _test_lm_studio_connection: analyze_task_adherence is called with a test
\* context; any judgment with confidence >= 0 passes, an exception fails.
TestLmStudioConnection(response) ==
    LET a == AnalyzeTaskAdherence(response)
    IN  IF a.raised # "none" THEN FALSE ELSE a.result.confidence >= 0

\* HawtcherApp.start up to the try around monitor.start: the connection
\* test, then the relay is started (its listener thread sets self.loop) and
\* the monitor is built.
Start(response) ==
    /\ app_pc = "created"
    /\ LET test_ok == TestLmStudioConnection(response)
       IN  /\ app_pc' = IF test_ok THEN "entering" ELSE "returned"
           /\ loop' = (test_ok /\ relay_configured)
           /\ started' = [called |-> TRUE, response |-> response, test_ok |-> test_ok,
                          relay_started |-> test_ok /\ relay_configured]
    /\ UNCHANGED <<monitor_running, stopped>>
    /\ UNCHANGED <<relay_configured, chat_id, answer_queue, waiting_for_answer,
                   current_question_id, ask_pc, question, handler, sent, unreachable, replies,
                   questions, last_question, telegram_chat_id, detected>>
    /\ UNCHANGED not_app_vars

\* HistoryMonitor.start(use_polling=True): _running = True, then the try of
\* _run_polling_mode is entered.
MonitorStart ==
    /\ app_pc = "entering"
    /\ monitor_running' = TRUE
    /\ app_pc' = "polling"
    /\ UNCHANGED <<started, stopped, relay_vars>>
    /\ UNCHANGED not_app_vars

\* one turn of while self._running
LoopTick ==
    /\ app_pc = "polling"
    /\ monitor_running
    /\ PollTick

\* KeyboardInterrupt in the main thread.  Inside the loop it is caught by
\* the except clause of _run_polling_mode, which calls HistoryMonitor.stop;
\* the loop ends, monitor.start returns normally and so does start.  Before
\* the loop it is caught by the except clause of start, which calls
\* HawtcherApp.stop: HistoryMonitor.stop, then TelegramRelay.stop with its
\* join(timeout=5).
Interrupt ==
    /\ app_pc \in {"entering", "polling"}
    /\ app_pc = "polling" => PollingLoopRunning
    /\ stopped' = IF app_pc = "polling"
                  THEN [interrupted_at |-> "polling", app_stop |-> FALSE, monitor_stop |-> TRUE,
                        relay_stop |-> FALSE, relay_joined |-> FALSE]
                  ELSE [interrupted_at |-> "entering", app_stop |-> TRUE, monitor_stop |-> TRUE,
                        relay_stop |-> relay_configured, relay_joined |-> relay_configured]
    /\ monitor_running' = FALSE
    /\ app_pc' = "returned"
    /\ UNCHANGED <<started, relay_vars>>
    /\ UNCHANGED not_app_vars

(***************************************************************************)
(* Specifications                                                          *)
(***************************************************************************)

\* QuestionAnswerer.__init__ with the threshold of the default settings
AnswererIdle ==
    /\ confidence_threshold = QuestionConfidenceThreshold
    /\ last_attempt = NoAttempt

DetectorIdle ==
    /\ construction = "none"
    /\ last_detect = NoDetect
    /\ last_ingest = NoIngest
    /\ last_extract = NoExtract


\* TelegramRelay.__init__; no relay, no question
RelayIdle ==
    /\ relay_configured = FALSE
    /\ chat_id = NoChat
    /\ answer_queue = <<>>
    /\ waiting_for_answer = FALSE
    /\ current_question_id = 0
    /\ ask_pc = "idle"
    /\ question = NoQuestion
    /\ handler = NoHandler
    /\ sent = {}
    /\ unreachable = {}
    /\ replies = 0
    /\ questions = 0
    /\ last_question = NoOutcome
    /\ telegram_chat_id = NoChat
    /\ loop = FALSE
    /\ detected = <<>>

\* Interventor.__init__
DeliveryIdle ==
    /\ fs = [p \in Paths |-> Absent]
    /\ write_pc = "idle"
    /\ write_job = NoJob
    /\ intervention_count = 0
    /\ log_path = TRUE
    /\ audit_log = <<>>
    /\ observed = Absent
    /\ committed = {}
    /\ last_delivery = NoDelivery

AnalyzerIdle ==
    /\ on_intervention = TRUE
    /\ user_instruction = None
    /\ recent_events = <<>>
    /\ event_count = 0
    /\ all_clean = TRUE
    /\ last_event = NoEvent
    /\ current_todos = <<>>
    /\ completed_todos = <<>>

\* no context was built
ContextIdle ==
    /\ context = NoContext
    /\ context_taken = NoContextTaken

\* HawtcherApp.__init__: start was not called
AppIdle ==
    /\ app_pc = "created"
    /\ monitor_running = FALSE
    /\ started = NoStarted
    /\ stopped = NoStopped

WatcherIdle ==
    /\ file_exists = FALSE
    /\ file = <<>>
    /\ pending = <<>>
    /\ next_id = 1
    /\ last_position = 0
    /\ emitted = <<>>
    /\ last_read = NoRead

\* HistoryWatcher.__init__ on a history file that may exist already
InitHistory ==
    /\ file_exists \in BOOLEAN
    /\ file \in (IF file_exists THEN InitialContents ELSE {<<>>})
    /\ pending = (IF file_exists /\ file # <<>>
                  THEN SubSeq(RecordTokens(0, "good"), Len(file) + 1, 3)
                  ELSE <<>>)
    /\ next_id = 1
    /\ last_position = InitializePosition(file_exists, file)
    /\ emitted = <<>>
    /\ last_read = NoRead

InitWatcher ==
    /\ InitHistory
    /\ AnalyzerIdle
    /\ DeliveryIdle
    /\ RelayIdle
    /\ DetectorIdle
    /\ AnswererIdle
    /\ ContextIdle
    /\ AppIdle

NextWatcher ==
    \/ \E kind \in LineKinds, n \in 1..3 : WriterAppend(kind, n)
    \/ \E n \in 1..3 : WriterFlush(n)
    \/ ForceCheck
    \/ \E src_path \in {"history_path", "other_path"} : OnModified(src_path)

SpecWatcher == InitWatcher /\ [][NextWatcher]_vars

\* HistoryMonitor.start(use_polling=True), as HawtcherApp.start calls it
NextLoop ==
    \/ \E kind \in LineKinds, n \in 1..3 : WriterAppend(kind, n)
    \/ \E n \in 1..3 : WriterFlush(n)
    \/ PollTick

SpecLoop == InitWatcher /\ [][NextLoop]_vars

\* HawtcherApp.__init__, with or without a relay, before start is called
InitApp ==
    /\ InitHistory
    /\ relay_configured \in BOOLEAN
    /\ chat_id = NoChat
    /\ answer_queue = <<>>
    /\ waiting_for_answer = FALSE
    /\ current_question_id = 0
    /\ ask_pc = "idle"
    /\ question = NoQuestion
    /\ handler = NoHandler
    /\ sent = {}
    /\ unreachable = {}
    /\ replies = 0
    /\ questions = 0
    /\ last_question = NoOutcome
    /\ telegram_chat_id = NoChat
    /\ loop = FALSE
    /\ detected = <<>>
    /\ AppIdle
    /\ AnalyzerIdle
    /\ DeliveryIdle
    /\ DetectorIdle
    /\ AnswererIdle
    /\ ContextIdle

\* What the classifier endpoint does with the call of the connection test:
\* it cannot be reached, or it returns a judgment.
ConnectionResponses ==
    {Response("error", <<>>), Response("ok", <<ReplyToken("object", RequiredKeys, TRUE, 90)>>)}

\* The main thread, the operator and the writer of the history file.
NextApp ==
    \/ \E response \in ConnectionResponses : Start(response)
    \/ MonitorStart
    \/ LoopTick
    \/ Interrupt
    \/ \E kind \in LineKinds, n \in 1..3 : WriterAppend(kind, n)
    \/ \E n \in 1..3 : WriterFlush(n)

SpecApp == InitApp /\ [][NextApp]_vars

\* TaskAnalyzer.__init__; start() may set the instruction given on the
\* command line before the first event.
InitAnalyzer ==
    /\ on_intervention \in BOOLEAN
    /\ user_instruction = None
    /\ recent_events = <<>>
    /\ event_count = 0
    /\ all_clean = TRUE
    /\ last_event = NoEvent
    /\ current_todos = <<>>
    /\ completed_todos = <<>>
    /\ WatcherIdle
    /\ DeliveryIdle
    /\ RelayIdle
    /\ DetectorIdle
    /\ AnswererIdle
    /\ ContextIdle
    /\ AppIdle

NextAnalyzer ==
    \/ \E display \in Displays, response \in Responses \cup {NoResponse} :
          ProcessEvent(display, response)
    \/ \E instruction \in {<<>>, TextFixBug} : SetUserInstruction(instruction)

SpecAnalyzer == InitAnalyzer /\ [][NextAnalyzer]_vars

\* The events and the reply of a run in which the classifier keeps its context.
ContextDisplays == {TextFixBug, TextIllCheck}

ContextResponses == {Response("ok", <<ReplyToken("object", RequiredKeys, TRUE, 90)>>), NoResponse}

NextContext ==
    \/ \E display \in ContextDisplays, response \in ContextResponses :
          ProcessEventKept(display, response)
    \/ \E instruction \in {TextFixBug, TextOngoing} : SetUserInstruction(instruction)
    \/ \E current \in TodoLists \cup {None}, completed \in TodoLists \cup {None} :
          UpdateTodos(current, completed)

SpecContext == InitAnalyzer /\ [][NextContext]_vars

\* Interventor.__init__, with or without an audit log
InitDelivery ==
    /\ fs = [p \in Paths |-> Absent]
    /\ write_pc = "idle"
    /\ write_job = NoJob
    /\ intervention_count = 0
    /\ log_path \in BOOLEAN
    /\ audit_log = <<>>
    /\ observed = Absent
    /\ committed = {}
    /\ last_delivery = NoDelivery
    /\ WatcherIdle
    /\ AnalyzerIdle
    /\ RelayIdle
    /\ DetectorIdle
    /\ AnswererIdle
    /\ ContextIdle
    /\ AppIdle

NextDelivery ==
    \/ \E decision \in { InterventionDecision(a) : a \in DeliveredAnalyses } :
          Intervene(decision)
    \/ \E answer \in Answers : AnswerWrite(answer)
    \/ OpenTemp
    \/ WriteLine
    \/ CloseTemp
    \/ \E log_ok \in BOOLEAN : Replace(log_ok)
    \/ \E log_ok \in BOOLEAN : WriteFails(log_ok)
    \/ ReaderRead
    \/ ReaderClear

SpecDelivery == InitDelivery /\ [][NextDelivery]_vars

\* HawtcherApp.__init__: a relay is built when it is enabled and has a token;
\* its listener is running.  The relay starts without a recipient and the
\* first /start supplies it, which leads to the states of a relay that was
\* given its recipient in the settings (that start is part of InitContact).
InitQuestion ==
    /\ relay_configured \in BOOLEAN
    /\ chat_id = NoChat
    /\ answer_queue = <<>>
    /\ waiting_for_answer = FALSE
    /\ current_question_id = 0
    /\ ask_pc = "idle"
    /\ question = NoQuestion
    /\ handler = NoHandler
    /\ sent = {}
    /\ unreachable = {}
    /\ replies = 0
    /\ questions = 0
    /\ last_question = NoOutcome
    /\ telegram_chat_id = chat_id
    /\ loop = relay_configured
    /\ detected = <<>>
    /\ WatcherIdle
    /\ AnalyzerIdle
    /\ DeliveryIdle
    /\ DetectorIdle
    /\ AnswererIdle
    /\ ContextIdle
    /\ AppIdle

\* The steps of the asking thread inside ask_question.
AskerStep ==
    \/ AskDrain
    \/ \E send_ok \in BOOLEAN : AskSend(send_ok)
    \/ AskGet
    \/ AskTimeout
    \/ \E write_ok \in BOOLEAN : AskReturn(write_ok)

NextQuestion ==
    \/ \E data \in AnswerReplies, write_ok \in BOOLEAN : HandleQuestion(data, write_ok)
    \/ AskerStep
    \/ HandleStart("chat")
    \/ \E re \in 1..MaxQuestions : HandleMessage("chat", "Use mocks", re)
    \/ \E re \in 1..MaxQuestions : HandleButton("chat", "Yes", re)
    \/ HandlerPut

SpecQuestion == InitQuestion /\ [][NextQuestion]_vars

\* The asking thread is scheduled again and again, and the time of the
\* timeout passes.
SpecQuestionFair == SpecQuestion /\ WF_vars(AskerStep)

\* A relay from its construction on: the listener thread starts after the
\* relay is built, any chat may write to the bot, and the answering model
\* fails so that every question goes to the relay.
InitContact ==
    /\ relay_configured = TRUE
    /\ telegram_chat_id \in {NoChat, "chat"}
    /\ chat_id = telegram_chat_id
    /\ answer_queue = <<>>
    /\ waiting_for_answer = FALSE
    /\ current_question_id = 0
    /\ ask_pc = "idle"
    /\ question = NoQuestion
    /\ handler = NoHandler
    /\ sent = {}
    /\ unreachable = {}
    /\ replies = 0
    /\ questions = 0
    /\ last_question = NoOutcome
    /\ loop = FALSE
    /\ detected = <<>>
    /\ WatcherIdle
    /\ AnalyzerIdle
    /\ DeliveryIdle
    /\ DetectorIdle
    /\ AnswererIdle
    /\ ContextIdle
    /\ AppIdle

NextContact ==
    \/ RunBot
    \/ \E sender \in Senders : HandleStart(sender)
    \/ \E sender \in Senders, re \in 0..MaxQuestions : HandleMessage(sender, "Use mocks", re)
    \/ \E sender \in Senders, re \in 1..MaxQuestions : HandleButton(sender, "Yes", re)
    \/ HandlerPut
    \/ HandleQuestion(AnswerError, TRUE)
    \/ AskDrain
    \/ AskSend(TRUE)
    \/ AskGet
    \/ AskTimeout
    \/ AskReturn(TRUE)

SpecContact == InitContact /\ [][NextContact]_vars

InitDetector ==
    /\ DetectorIdle
    /\ AnswererIdle
    /\ ContextIdle
    /\ AppIdle
    /\ WatcherIdle
    /\ AnalyzerIdle
    /\ DeliveryIdle
    /\ RelayIdle

NextDetector ==
    \/ \E text \in DetectorTexts : IsQuestionCall(text)
    \/ \E keywords \in {AnalyzerKeywords, AppKeywords} : BuildAnalyzer(keywords)
    \/ \E text \in DetectorTexts : ProcessEventQuestion(text)
    \/ \E text \in ExtractTexts : ExtractQuestionCall(text)

SpecDetector == InitDetector /\ [][NextDetector]_vars

\* Values of QUESTION_CONFIDENCE_THRESHOLD in the settings, in hundredths.
Thresholds == {0, 50, 94, 95, 100, 150}

\* What the answering model gives back to try_answer.
AnswererReplies ==
    AnswerReplies
    \cup { AnswerData(TRUE, answer, TRUE, confidence) :
             answer \in {"", "Yes"}, confidence \in {-20, 0, 50, 100} }

\* QuestionAnswerer.__init__ with the threshold of the settings
InitAnswerer ==
    /\ confidence_threshold \in Thresholds
    /\ last_attempt = NoAttempt
    /\ WatcherIdle
    /\ AnalyzerIdle
    /\ DeliveryIdle
    /\ RelayIdle
    /\ DetectorIdle
    /\ ContextIdle
    /\ AppIdle

NextAnswerer ==
    \E data \in AnswererReplies : TryAnswerCall(data)

SpecAnswerer == InitAnswerer /\ [][NextAnswerer]_vars

(***************************************************************************)
(* Properties of the watcher (checked under SpecWatcher)                   *)
(***************************************************************************)

\* The ids of the well-formed records appended after attach, in file order.
AppendedGood ==
    LET heads == SelectSeq(file, LAMBDA t : t.kind = "good" /\ t.part = "head" /\ t.id >= 1)
    IN  [i \in DOMAIN heads |-> heads[i].id]

\* C1: no record is passed to on_new_event more than once, and the record
\* that was in the file when the watcher was attached (id 0) is never passed.
C1_NoReplayNoDuplicate ==
    /\ \A i, j \in DOMAIN emitted : (i # j) => (emitted[i] # emitted[j])
    /\ \A i \in DOMAIN emitted : emitted[i] # 0

\* C1: two records were emitted over more than one read, from a file that
\* held a complete record at attach.
C1_Witness ==
    /\ Len(emitted) >= 2
    /\ Len(file) >= 3 /\ file[1].id = 0 /\ file[3] = NL
    /\ last_read.outcome = "ok"
    /\ last_read.before > 3

\* C2: once the writer has flushed every record whole and a read has reached
\* the end of the file, the records passed to on_new_event are exactly the
\* well-formed records appended after attach, each once, in file order.  The
\* files considered hold no line that makes a read raise, so that only the
\* way the appends are split between the reads is left to vary.
C2_EveryRecordOnceInOrder ==
    ( /\ pending = <<>>
      /\ last_read.outcome = "ok"
      /\ last_position = Len(file)
      /\ \A i \in DOMAIN file : file[i].kind \notin {"nonobject", "badenc"} )
    => (emitted = AppendedGood)

\* C3: in one read, every well-formed line that follows a line failing
\* structural validation is still passed to on_new_event.
C3_BadLineDoesNotAbortRead ==
    \A i, j \in DOMAIN last_read.lines :
        ( /\ i < j
          /\ last_read.lines[i].outcome \in {"JSONDecodeError", "ValidationError", "TypeError"}
          /\ last_read.lines[j].outcome = "event" )
        => (\E k \in DOMAIN last_read.passed : last_read.passed[k] = last_read.lines[j].id)

\* C4: after every read of an existing file the stored offset is the end of
\* file that the read saw, and is not smaller than before the read.
C4_OffsetAdvancesToEof ==
    (last_read.outcome \in {"ok", "TypeError", "UnicodeDecodeError"})
    => (last_position = last_read.eof /\ last_position >= last_read.before)

(***************************************************************************)
(* Properties of the analyzer and the client (checked under SpecAnalyzer)  *)
(***************************************************************************)

Min(a, b) == IF a <= b THEN a ELSE b

\* C5: recent_events holds at most ContextWindowSize events, and they are the
\* latest processed events (timestamps event_count - n + 1 .. event_count)
\* in their original order, the newest being the event processed last.
C5_WindowHoldsLastW ==
    /\ Len(recent_events) = Min(event_count, ContextWindowSize)
    /\ \A i \in DOMAIN recent_events :
          recent_events[i].timestamp = event_count - Len(recent_events) + i
    /\ (recent_events # <<>>) =>
          (recent_events[Len(recent_events)].display = last_event.display)

\* C5: more events were processed than the window holds, and the window is full.
C5_Witness ==
    /\ event_count >= ContextWindowSize + 2
    /\ Len(recent_events) = ContextWindowSize
    /\ recent_events[1].timestamp = event_count - ContextWindowSize + 1

\* C6: while no processed event held a suspicious phrase and the task
\* instruction is known, the classifier is invoked at an event exactly when
\* the event's position is a multiple of 3, and then with force = false.
C6_CadenceTriggers ==
    (all_clean /\ last_event.pos >= 1 /\ ~Falsy(last_event.instruction))
    => /\ (last_event.trigger.calls = 1) <=> (last_event.pos % 3 = 0)
       /\ (last_event.trigger.calls = 1) => ~last_event.trigger.force

\* C6: the sixth of six events without a suspicious phrase invoked the classifier.
C6_Witness ==
    /\ all_clean
    /\ last_event.pos = 6
    /\ last_event.trigger.calls = 1
    /\ ~last_event.trigger.force

\* C7: an event whose text holds a suspicious phrase, in whatever case,
\* invokes the classifier once at that event, whatever its position, with
\* force = true.
C7_SuspiciousForcesOnce ==
    (last_event.pos >= 1 /\ last_event.display \in SuspiciousTexts)
    => (last_event.trigger.calls = 1 /\ last_event.trigger.force)

\* C7: a suspicious event on a cadence position invoked the classifier once, forced.
C7_Witness ==
    /\ last_event.pos = 3
    /\ last_event.display = TextOngoing
    /\ last_event.trigger.calls = 1
    /\ last_event.trigger.force

\* C8: a triggered analysis produces a decision if and only if the judgment
\* is off-task with confidence at or above the threshold, or the trigger was
\* forced.
C8_InterveneIff ==
    (last_event.trigger.calls = 1)
    => ( last_event.trigger.decided <=>
            \/ ( /\ ~last_event.trigger.analysis.is_on_task
                 /\ last_event.trigger.analysis.confidence >= InterventionThreshold )
            \/ last_event.trigger.force )

\* C8: an unforced trigger with an off-task judgment exactly at the threshold
\* produced a decision.
C8_Witness ==
    /\ last_event.trigger.calls = 1
    /\ ~last_event.trigger.force
    /\ ~last_event.trigger.analysis.is_on_task
    /\ last_event.trigger.analysis.confidence = InterventionThreshold
    /\ last_event.trigger.decided

\* Replies that are a failed call or cannot be parsed: the call raised, no
\* choice, no content, an empty content, prose.
FailedReplies ==
    { Response("error", <<>>), Response("nochoices", <<>>), Response("ok", NoContent),
      Response("ok", <<>>), Response("ok", <<Prose>>) }

\* Replies that do not decode to a valid judgment: the failed ones, JSON that
\* is not an object, an object without a required key, a confidence outside
\* [0, 1].
InvalidReplies ==
    FailedReplies
    \cup { Response("ok", <<JsonArray>>) }
    \cup { Response("ok", <<o>>) : o \in PartialObjects }
    \cup { Response("ok", <<o>>) : o \in { x \in FullObjects : x.confidence < 0 \/ x.confidence > 100 } }

\* C9: a trigger whose classifier call failed, or whose reply cannot be
\* parsed, produces no decision and delivers none.
C9_NoInterventionOnClassifierFailure ==
    (last_event.trigger.calls = 1 /\ last_event.trigger.response \in FailedReplies)
    => (~last_event.trigger.decided /\ ~last_event.trigger.delivered)

\* C10: analyze_task_adherence raises nothing, and for a reply that does not
\* decode to a valid judgment it returns on_task = true with confidence 0.
C10_ClientNeverRaises ==
    (last_event.trigger.calls = 1)
    => /\ last_event.trigger.raised = "none"
       /\ (last_event.trigger.response \in InvalidReplies)
             => ( /\ last_event.trigger.analysis.is_on_task
                  /\ last_event.trigger.analysis.confidence = 0 )

\* C10: the classifier call of a trigger raised, and the default judgment came back.
C10_Witness ==
    /\ last_event.trigger.calls = 1
    /\ last_event.trigger.response = Response("error", <<>>)
    /\ last_event.trigger.raised = "none"
    /\ last_event.trigger.analysis = AnalysisResult(TRUE, 0, "Analysis failed")

\* C20: the severity of every decision the analyzer builds is a function of
\* the confidence of its judgment alone: critical from 0.9, high from 0.8,
\* medium from 0.7, low below; a confidence on a boundary is in the higher band.
C20_SeverityBands ==
    last_event.trigger.decided
    => LET c == last_event.trigger.analysis.confidence
           s == last_event.trigger.severity
       IN  /\ s \in {"critical", "high", "medium", "low"}
           /\ (s = "critical") <=> (c >= 90)
           /\ (s = "high") <=> (80 <= c /\ c < 90)
           /\ (s = "medium") <=> (70 <= c /\ c < 80)
           /\ (s = "low") <=> (c < 70)

\* C20: a decision was built for a judgment whose confidence is exactly 0.8.
C20_Witness ==
    /\ last_event.trigger.decided
    /\ last_event.trigger.analysis.confidence = 80
    /\ last_event.trigger.severity = "high"

(***************************************************************************)
(* Properties of the side-channel file (checked under SpecDelivery)        *)
(***************************************************************************)

\* C12: after a successful delivery of an intervention the side-channel file
\* exists and its whole content is the intervention_message of the decision.
C12_FileIsInterventionMessage ==
    (last_delivery.kind = "intervention" /\ last_delivery.ok)
    => /\ last_delivery.file_after.exists
       /\ last_delivery.file_after.content = last_delivery.decision.intervention_message

\* C13: the delivery path is absent or holds a whole message whose replace
\* completed, at every step of a write, and a reader of the path never sees
\* anything else: no empty file, no part of a message.
C13_ReaderSeesWholeMessages ==
    /\ committed \subseteq { FileMessage(d) : d \in Decisions }
    /\ fs[InterventionFile].exists => fs[InterventionFile].content \in committed
    /\ observed.exists => observed.content \in committed

\* C13: a reader saw the previous message while part of a different message
\* was in the temporary file.
C13_Witness ==
    /\ write_pc = "opened"
    /\ fs["intervention.tmp"].exists
    /\ Len(fs["intervention.tmp"].content) \in 1..(Len(write_job.message) - 1)
    /\ observed.exists
    /\ observed = fs[InterventionFile]
    /\ observed.content # write_job.message

(***************************************************************************)
(* Properties of question answering (checked under SpecQuestion)           *)
(***************************************************************************)

\* C11: after _handle_question settled a question with the answer A and wrote
\* the side-channel file, the content of the file contains A.
C11_FileContainsAnswer ==
    (last_question.n > 0 /\ last_question.write_ok)
    => /\ last_question.file_after.exists
       /\ MessageContains(last_question.file_after.content, last_question.answer)

\* C14: the answer ask_question returns for a question was never given in
\* reply to an earlier question.
C14_NoStaleAnswer ==
    (last_question.forwarded /\ last_question.returned # NoReply)
    => ~(last_question.returned.re < last_question.id_after)

\* C15: an automatic answer whose confidence is at or above the threshold is
\* the answer of the question, and the relay is left alone: ask_question is
\* not called, the question id and the waiting flag stay as they were.
C15_ConfidentAnswerNotEscalated ==
    (last_question.n > 0 /\ last_question.attempt.confidence >= QuestionConfidenceThreshold)
    => /\ last_question.answer = last_question.attempt.answer
       /\ ~last_question.called
       /\ ~last_question.forwarded
       /\ last_question.id_after = last_question.id_before
       /\ ~last_question.waiting_after

\* C15: a question whose automatic answer had exactly the threshold confidence
\* was settled while a relay with a known recipient was there.
C15_Witness ==
    /\ last_question.n > 0
    /\ last_question.attempt = AnswerAttempt("Yes", QuestionConfidenceThreshold, FALSE)
    /\ last_question.relay
    /\ last_question.chat_known
    /\ last_question.answer = "Yes"

\* C16: a question whose automatic answer is below the threshold, or failed,
\* goes to the human when a relay with a known recipient is there: it takes
\* the next question id and its send is scheduled; and when a reply came in
\* after the send and before the timeout, ask_question returns the first such
\* reply and it is the answer of the question.
C16_HumanReplyResolves ==
    ( /\ last_question.n > 0
      /\ last_question.attempt.should_ask_user
      /\ last_question.relay
      /\ last_question.chat_known )
    => /\ last_question.called
       /\ last_question.forwarded
       /\ last_question.id_after = last_question.id_before + 1
       /\ last_question.id_after \in sent
       /\ (last_question.window # <<>>)
             => ( /\ ~last_question.timed_out
                  /\ last_question.returned = Head(last_question.window)
                  /\ last_question.answer = last_question.returned.text )

\* C16: a failed automatic attempt was forwarded and the human's reply to
\* that very question became the answer.
C16_Witness ==
    /\ last_question.forwarded
    /\ last_question.attempt = AnswerAttempt("", 0, TRUE)
    /\ last_question.window = <<Reply("chat", "Use mocks", last_question.id_after)>>
    /\ last_question.answer = "Use mocks"

\* C17: a question whose automatic answer is below the threshold and that got
\* no answer from the human (timeout, no relay, no recipient) is settled with
\* the automatic answer when it is not empty, else with the fixed text.
C17_NoHumanAnswerFallsBack ==
    ( /\ last_question.n > 0
      /\ last_question.attempt.should_ask_user
      /\ last_question.returned = NoReply )
    => last_question.answer =
          (IF last_question.attempt.answer # "" THEN last_question.attempt.answer
           ELSE "Please clarify your question.")

\* C17: a forwarded question with an empty automatic answer timed out and was
\* settled with the fixed text.
C17_Witness ==
    /\ last_question.forwarded
    /\ last_question.timed_out
    /\ last_question.attempt.answer = ""
    /\ last_question.answer = "Please clarify your question."

\* C18: every call of ask_question that waits comes back.
C18_AskQuestionReturns ==
    (ask_pc # "idle") ~> (ask_pc = "idle")

\* C18: a call of ask_question came back with no answer after the timeout,
\* and the flag is down again.
C18_Witness ==
    /\ ask_pc = "idle"
    /\ ~waiting_for_answer
    /\ last_question.called
    /\ last_question.timed_out
    /\ last_question.returned = NoReply

\* C19: one question is open at most: the waiting flag is up exactly while
\* the one asking thread is inside ask_question; the question ids are
\* 1, 2, ... without a gap, one for each forwarded question.
C19_OneExchangeAtATime ==
    /\ waiting_for_answer <=> (ask_pc # "idle")
    /\ sent = 1..Cardinality(sent)
    /\ current_question_id
          = Cardinality(sent) + (IF ask_pc \in {"drain", "send"} THEN 1 ELSE 0)
    /\ last_question.forwarded => last_question.id_after = last_question.id_before + 1

\* C19: the second forwarded question waits for its answer.
C19_Witness ==
    /\ ask_pc = "get"
    /\ waiting_for_answer
    /\ current_question_id = 2
    /\ sent = {1, 2}
    /\ last_question.forwarded
    /\ last_question.id_after = 1

(***************************************************************************)
(* Further properties of the analyzer (checked under SpecAnalyzer)         *)
(***************************************************************************)

\* C23: an event that holds a suspicious phrase leaves the cadence counter
\* as it is.
C23_SuspiciousEventNotCounted ==
    [][ (last_event'.pos # last_event.pos /\ SuspiciousActivity[last_event'.display])
        => event_count' = event_count ]_vars

\* C24: the instruction is taken from the display text of the first event
\* when none was set, and no later event sets or changes it.
C24_InstructionInferredAtFirstEventOnly ==
    [][ /\ (event_count = 0 /\ event_count' = 1 /\ Falsy(user_instruction))
            => user_instruction' = last_event'.display
        /\ (event_count >= 1 /\ event_count' = event_count + 1)
            => user_instruction' = user_instruction ]_vars

\* C25: the judgment made from a reply that decodes to a whole object has the
\* confidence of the reply clamped to [0, 1] and keeps its on_task flag.
C25_ConfidenceClamped ==
    \A o \in FullObjects :
        (last_event.trigger.calls = 1 /\ last_event.trigger.response = Response("ok", <<o>>))
        => /\ last_event.trigger.analysis.confidence = Clamp(o.confidence)
           /\ last_event.trigger.analysis.is_on_task = o.is_on_task

(***************************************************************************)
(* Further properties of question answering (checked under SpecQuestion)   *)
(***************************************************************************)

\* C29: the hand-off queue holds one answer at most.
C29_QueueSingleSlot ==
    Len(answer_queue) <= 1

(***************************************************************************)
(* Properties of the polling loop (checked under SpecLoop)                 *)
(***************************************************************************)

\* C30: whatever failed while a poll read and handled the new lines, the
\* polling loop is still running afterwards.
C30_FailureNeverStopsLoop ==
    (last_read.outcome \notin {"none", "nofile", "ok"}) => PollingLoopRunning

(***************************************************************************)
(* Further properties of the Interventor (checked under SpecDelivery)      *)
(***************************************************************************)

\* C26: no call of intervene raises when the write of the side-channel file
\* or of the audit log fails, and the intervention counter never goes down.
C26_InterveneNeverRaises ==
    /\ [](last_delivery.raised = "none")
    /\ [][intervention_count' \in {intervention_count, intervention_count + 1}]_vars

\* C26: the second intervention ended with a failed write, its counter kept.
C26_Witness ==
    /\ write_pc = "idle"
    /\ last_delivery.kind = "intervention"
    /\ ~last_delivery.ok
    /\ last_delivery.raised = "none"
    /\ intervention_count = 2

\* C27: with an audit log, between two calls the intervention counter and the
\* number of log entries both equal the number of decisions delivered to the
\* side channel, and the entries are numbered 1, 2, 3, ...
C27_CounterAndLogMatchDeliveries ==
    (log_path /\ write_pc = "idle")
    => /\ intervention_count = last_delivery.delivered
       /\ Len(audit_log) = last_delivery.delivered
       /\ \A i \in DOMAIN audit_log : audit_log[i].seq = i

\* C28: a question whose send failed is given up at once: ask_question
\* returns no answer without waiting for the timeout.
C28_SendFailureReturnsAtOnce ==
    last_question.send_failed
    => (last_question.returned = NoReply /\ ~last_question.timed_out)

(***************************************************************************)
(* Properties of the question detector (checked under SpecDetector)        *)
(***************************************************************************)

\* C21: is_question gives false for a text that a rhetorical pattern matches,
\* whatever question pattern matches too; true for a text that is not blank,
\* that no rhetorical pattern matches and that a question pattern matches;
\* false for an empty or blank text.
C21_RhetoricalExclusionFirst ==
    last_detect.called
    => LET text == last_detect.text
           blank == text = <<>> \/ IsBlank(text)
           rhetorical == AnySearch(RHETORICAL_PATTERNS, text)
           question_like == AnySearch(QUESTION_PATTERNS, text)
       IN  /\ rhetorical => ~last_detect.result
           /\ (~blank /\ ~rhetorical /\ question_like) => last_detect.result
           /\ blank => ~last_detect.result
           /\ text \in {TextWhatIs, TextLetMeCheck} => ~last_detect.result
           /\ text = TextShouldI => last_detect.result

\* C21: is_question said no to a text that ends in a question mark and that a
\* rhetorical pattern matches.
C21_Witness ==
    /\ last_detect.called
    /\ last_detect.text = TextWhatIs
    /\ AnySearch(QUESTION_PATTERNS, TextWhatIs)
    /\ AnySearch(RHETORICAL_PATTERNS, TextWhatIs)
    /\ ~last_detect.result

\* C22: for an event whose text is a question, an automatic answer attempt is
\* requested and question and attempt are given to the question handler.
C22_QuestionEventIsAnswered ==
    (last_ingest.n > 0 /\ IsQuestion(last_ingest.text))
    => (last_ingest.attempt_requested /\ last_ingest.handled)

\* C32: extract_question returns the first line of the text that is a
\* question when taken on its own, whatever the other lines hold; when no
\* line is a question it returns the whole stripped text if the text holds a
\* question mark, and nothing otherwise.
C32_FirstQuestionLine ==
    last_extract.called =>
        LET text == last_extract.text
            found == QuestionLines(text)
        IN  last_extract.result =
               IF found # <<>> THEN found[1]
               ELSE IF \E i \in DOMAIN text : text[i] = "?" THEN StripText(text)
               ELSE None

\* C33: every AnswerAttempt that try_answer returns has its confidence in
\* [0, 1] and its should_ask_user flag equal to (confidence < threshold),
\* for every threshold and every outcome of the call to the answering model.
C33_AttemptFlagDerived ==
    last_attempt.called =>
        /\ last_attempt.attempt.confidence \in 0..100
        /\ last_attempt.attempt.should_ask_user
              <=> (last_attempt.attempt.confidence < confidence_threshold)

\* C38: every reply that a handler accepted (put in the queue and
\* acknowledged to the human) while an ask_question call was waiting is the
\* reply that call returns; none is dropped.
C38_AcknowledgedReplyReturned ==
    \A i \in DOMAIN last_question.window :
        last_question.window[i] = last_question.returned

\* C40: delivering an answer leaves the bookkeeping of interventions alone:
\* the write that ends _handle_question changes neither intervention_count
\* nor the audit log, so the counter always equals the number of calls of
\* intervene (those finished and the one in progress) and, between two
\* calls, the count reported at stop is the number of intervene calls.
C40_AnswerLeavesBookkeeping ==
    /\ intervention_count =
          last_delivery.interventions + (IF write_job.kind = "intervention" THEN 1 ELSE 0)
    /\ write_pc = "idle" => intervention_count = last_delivery.interventions
    /\ last_delivery.kind = "answer" => ~last_delivery.logged
    /\ Len(audit_log) <= last_delivery.interventions

\* an answer was delivered after one intervention and before another
C40_Witness ==
    /\ last_delivery.kind = "answer"
    /\ last_delivery.ok
    /\ last_delivery.interventions = 1
    /\ write_job.kind = "intervention"
    /\ intervention_count = 2
    /\ Len(audit_log) = 1

(***************************************************************************)
(* Properties of the relay from its construction on (checked under         *)
(* SpecContact)                                                            *)
(***************************************************************************)

\* C34: on_chat_id_detected fires at most once, on the first /start of a
\* relay built without a recipient, and that /start makes its sender the
\* recipient; it never fires for a relay given a recipient at start, and a
\* later /start, whoever sends it, neither fires it nor changes the
\* recipient.
C34_FirstContactOnce ==
    /\ [](/\ Len(detected) <= 1
          /\ telegram_chat_id # NoChat => (detected = <<>> /\ chat_id = telegram_chat_id)
          /\ telegram_chat_id = NoChat =>
                (IF detected = <<>> THEN chat_id = NoChat ELSE chat_id = detected[1]))
    /\ [][\A sender \in Senders :
            HandleStart(sender) =>
               IF chat_id = NoChat
               THEN chat_id' = sender /\ detected' = <<sender>>
               ELSE chat_id' = chat_id /\ detected' = detected]_vars

\* the first /start came from the chat "other", which then was asked a question
C34_Witness ==
    /\ telegram_chat_id = NoChat
    /\ detected = <<"other">>
    /\ chat_id = "other"
    /\ sent # {}

\* C37: waiting_for_answer is true only while a call of ask_question is in
\* progress; before the first call and after a call ended (with an answer,
\* with a timeout or with an error while sending) it is false.
C37_WaitingOnlyDuringAsk ==
    ask_pc = "idle" => ~waiting_for_answer

\* C39: only replies of the recipient are accepted as answers: no reply of
\* another chat is in the answer queue or is what ask_question returns.
C39_OnlyRecipientAnswers ==
    /\ \A i \in DOMAIN answer_queue : answer_queue[i].sender = chat_id
    /\ last_question.returned.sender \in {NoChat, chat_id}

(***************************************************************************)
(* Properties of the task context (checked under SpecContext)              *)
(***************************************************************************)

\* C35: the context handed to the classifier at a trigger is a fresh copy: it
\* holds the instruction, the todo lists and the buffered events, the
\* triggering event last, as they were at the trigger, and no later
\* process_event, set_user_instruction or update_todos changes it.
C35_ContextIsFreshCopy ==
    context.taken =>
        /\ ContextView(context) = context_taken.view
        /\ LET events == context_taken.view.recent_events
           IN  events # <<>> => events[Len(events)].timestamp = context_taken.event

\* a context built at the third event is still held after two more events,
\* a new instruction and new todo lists
C35_Witness ==
    /\ context.taken
    /\ context_taken.event = 3
    /\ event_count = 5
    /\ user_instruction = TextOngoing
    /\ context.user_instruction = TextFixBug
    /\ current_todos = <<"write tests">>
    /\ context.current_todos = <<>>
    /\ Len(context.recent_events.items) = ContextWindowSize

(***************************************************************************)
(* Properties of start and stop (checked under SpecApp)                    *)
(***************************************************************************)

\* C31: an operator interrupt while the polling loop runs stops both the
\* ingestion loop and the relay listener: HawtcherApp.stop runs,
\* HistoryMonitor.stop is called and TelegramRelay.stop is called and joins
\* the listener thread.
C31_InterruptStopsMonitorAndRelay ==
    stopped.interrupted_at = "polling" =>
        /\ stopped.app_stop
        /\ stopped.monitor_stop
        /\ ~monitor_running
        /\ relay_configured => (stopped.relay_stop /\ stopped.relay_joined)

\* C36: start does not begin monitoring when the classifier endpoint cannot
\* be reached: the connection test fails and start returns before the relay
\* or the history monitor is started.
C36_NoMonitoringWithoutClassifier ==
    (started.called /\ started.response.transport = "error") =>
        /\ ~started.test_ok
        /\ ~started.relay_started
        /\ app_pc = "returned"
        /\ ~monitor_running

====
